---- MODULE Spec2Model ----
(***************************************************************************)
(* Ledger of the EZ-Trip backend (src/backend/server.py): trips, expenses, *)
(* refunds and settlement records, the balance accumulator                 *)
(* get_trip_balances and the greedy settlement planner get_settlements;    *)
(* accounts, member entries, guest linking and sessions; and the handlers  *)
(* whose queries interleave with other requests, query by query.           *)
(*                                                                         *)
(* Money is counted in integer cents (0.01 of the trip currency).  The     *)
(* accumulator's float arithmetic is modelled by exact rationals; the two  *)
(* places where the binary representation decides the outcome are kept     *)
(* nondeterministic:                                                       *)
(*   - round(bal, 2) of a value lying exactly between two cents may give   *)
(*     either neighbour (parameter tie of get_trip_balances);              *)
(*   - a remainder credit - amount of exactly one cent may compare below,  *)
(*     equal to or above the literal 0.01 (parameter fp of the planner).   *)
(***************************************************************************)
EXTENDS Integers, Sequences, FiniteSets, TLC

VARIABLES trip, expenses, refunds, settlements, plan,
          users, user_sessions, requests

vars == <<trip, expenses, refunds, settlements, plan, users, user_sessions, requests>>

----------------------------------------------------------------------------
(* Bounds of the model *)

\* records the store may hold per collection, and the largest amount in cents
MaxExpenses == 1
MaxRefunds == 1
MaxSettlements == 1
MaxAmount == 3

\* refunds per snapshot in the specification of the read handlers
MaxSnapshotRefunds == 2
MaxGuests == 2
MaxSessions == 3
MaxOverlap == 3

Users == {"A", "B", "C"}
Currencies == {"INR"}

\* 0.01 expressed in cents: the tolerance literal of get_settlements
Tolerance == 1

\* an amount given in whole currency units, in cents (round(x, 2) keeps 2 digits)
Money(x) == x * 100

----------------------------------------------------------------------------
(* Exact arithmetic standing for Python floats *)

Abs(x) == IF x < 0 THEN -x ELSE x

RECURSIVE GCD(_, _)
GCD(a, b) == IF b = 0 THEN a ELSE GCD(b, a % b)

\* the quotient n / d, d > 0, in lowest terms
Rat(n, d) == LET g == GCD(Abs(n), d) IN [n |-> n \div g, d |-> d \div g]

Zero == [n |-> 0, d |-> 1]

RatAdd(x, y) == Rat(x.n * y.d + y.n * x.d, x.d * y.d)

RatSub(x, y) == Rat(x.n * y.d - y.n * x.d, x.d * y.d)

\* k * q for an integer k
RatScale(k, q) == LET g == GCD(Abs(k), q.d) IN Rat((k \div g) * q.n, q.d \div g)

\* round(q, 2) in cents; up decides a value exactly halfway between two cents
Round2(q, up) ==
    LET lo == q.n \div q.d
        rem == q.n - lo * q.d
    IN  IF 2 * rem < q.d THEN lo
        ELSE IF 2 * rem > q.d THEN lo + 1
        ELSE IF up THEN lo + 1 ELSE lo

TieChoices == [Users -> BOOLEAN]

----------------------------------------------------------------------------
(* Documents of the store *)

NoTrip == [created_by |-> "", members |-> <<>>, currency |-> ""]

Range(s) == {s[k] : k \in 1..Len(s)}

\* None of Python; m.get("username") of an entry without that key gives it too
None == "None"

\* db.users: the documents of the registered accounts, by user_id
Emails == [A |-> "a@mail", B |-> "b@mail", C |-> "c@mail"]
Usernames == [A |-> "ann", B |-> "bob", C |-> "cat"]

UserDoc(user_id, email, username) ==
    [user_id |-> user_id, email |-> email, username |-> username]

RegisteredUsers == [u \in Users |-> UserDoc(u, Emails[u], Usernames[u])]

\* db.users.find_one(query): the set holding the document found, empty when
\* there is none (emails and usernames are unique among accounts)
FindUser(query) ==
    {users[id] : id \in {id \in DOMAIN users :
                    /\ query.username # None => users[id].username = query.username
                    /\ query.email # None => users[id].email = query.email}}

\* the keys of a dict filled in the order of s: each value once, at its
\* first position
RECURSIVE DictKeys(_)
DictKeys(s) ==
    IF s = <<>> THEN <<>>
    ELSE LET rest == DictKeys(SubSeq(s, 1, Len(s) - 1))
         IN  IF s[Len(s)] \in Range(rest) THEN rest ELSE Append(rest, s[Len(s)])

\* balances = {m["user_id"]: 0 for m in trip["members"]}
MemberKeys(tr) == DictKeys([k \in 1..Len(tr.members) |-> tr.members[k].user_id])

MemberIds == {m.user_id : m \in Range(trip.members)}

\* db.trips.find_one({"trip_id": ..., "members.user_id": user})
IsMember(u) == trip # NoTrip /\ u \in MemberIds

RECURSIVE SumAmount(_)
SumAmount(s) == IF s = <<>> THEN 0 ELSE Head(s).amount + SumAmount(Tail(s))

----------------------------------------------------------------------------
(* Balance accumulator: get_trip_balances *)

\* balances[payer["user_id"]] += payer["amount"], over one expense's payers
RECURSIVE PayerCredit(_, _)
PayerCredit(uid, payers) ==
    IF payers = <<>> THEN 0
    ELSE (IF Head(payers).user_id = uid THEN Head(payers).amount ELSE 0)
         + PayerCredit(uid, Tail(payers))

RECURSIVE Occurrences(_, _)
Occurrences(uid, ids) ==
    IF ids = <<>> THEN 0
    ELSE (IF Head(ids) = uid THEN 1 ELSE 0) + Occurrences(uid, Tail(ids))

\* variant of the next definition: every recipient debited the whole refund
PerPersonRefund_full(uid, refund) ==
    RatScale(Occurrences(uid, refund.refunded_to), Rat(refund.amount, 1))

\* per_person_refund = refund["amount"] / len(refund["refunded_to"]), once
\* for every entry of refunded_to that is uid
PerPersonRefund(uid, refund) ==
    IF refund.refunded_to = <<>> THEN Zero
    ELSE RatScale(Occurrences(uid, refund.refunded_to),
                  Rat(refund.amount, Len(refund.refunded_to)))

RECURSIVE RefundDebit(_, _)
RefundDebit(uid, expense_refunds) ==
    IF expense_refunds = <<>> THEN Zero
    ELSE RatAdd(PerPersonRefund(uid, Head(expense_refunds)),
                RefundDebit(uid, Tail(expense_refunds)))

\* variant of the next definition: the split ratio taken with integer division
AdjustedSplit_floordiv(split, net_amount, original_amount) ==
    Rat(net_amount * (split.amount \div original_amount), 1)

\* adjusted_split = net_amount * (split["amount"] / original_amount)
AdjustedSplit(split, net_amount, original_amount) ==
    RatScale(net_amount, Rat(split.amount, original_amount))

RECURSIVE SplitDebit(_, _, _, _)
SplitDebit(uid, splits, net_amount, original_amount) ==
    IF splits = <<>> THEN Zero
    ELSE RatAdd(IF Head(splits).user_id = uid
                THEN AdjustedSplit(Head(splits), net_amount, original_amount)
                ELSE Zero,
                SplitDebit(uid, Tail(splits), net_amount, original_amount))

\* variant of the next definition: only the latest refund of the expense kept
ExpenseRefunds_last(expense_id, refs) ==
    LET all == SelectSeq(refs, LAMBDA r : r.expense_id = expense_id)
    IN  IF all = <<>> THEN <<>> ELSE <<all[Len(all)]>>

\* refunds_by_expense.get(expense_id, [])
ExpenseRefunds(expense_id, refs) ==
    SelectSeq(refs, LAMBDA r : r.expense_id = expense_id)

\* variant of the next definition: refunds not deducted from the total
NetAmount_noRefunds(expense, refs) ==
    expense.total_amount

\* net_amount = expense["total_amount"] - total_refunded
NetAmount(expense, refs) ==
    expense.total_amount - SumAmount(ExpenseRefunds(expense.expense_id, refs))

\* variant of the next definition: the split taken from the original amount
ExpenseContribution_grossSplit(uid, expense, refs) ==
    LET expense_refunds == ExpenseRefunds(expense.expense_id, refs)
        original_amount == expense.total_amount
        paid == Rat(PayerCredit(uid, expense.payers), 1)
        refunded == RefundDebit(uid, expense_refunds)
        owed == IF expense.splits # <<>> /\ original_amount > 0
                THEN SplitDebit(uid, expense.splits, original_amount, original_amount)
                ELSE Zero
    IN  RatSub(RatSub(paid, refunded), owed)

\* what one pass of the loop over expenses adds to balances[uid]
ExpenseContribution(uid, expense, refs) ==
    LET expense_refunds == ExpenseRefunds(expense.expense_id, refs)
        net_amount == NetAmount(expense, refs)
        original_amount == expense.total_amount
        paid == Rat(PayerCredit(uid, expense.payers), 1)
        refunded == RefundDebit(uid, expense_refunds)
        owed == IF expense.splits # <<>> /\ original_amount > 0
                THEN SplitDebit(uid, expense.splits, net_amount, original_amount)
                ELSE Zero
    IN  RatSub(RatSub(paid, refunded), owed)

RECURSIVE ExpensesBalance(_, _, _)
ExpensesBalance(uid, exps, refs) ==
    IF exps = <<>> THEN Zero
    ELSE RatAdd(ExpenseContribution(uid, Head(exps), refs),
                ExpensesBalance(uid, Tail(exps), refs))

\* the pass over db.settlements
RECURSIVE SettlementsBalance(_, _)
SettlementsBalance(uid, sets) ==
    IF sets = <<>> THEN 0
    ELSE (IF Head(sets).from_user_id = uid THEN Head(sets).amount ELSE 0)
         - (IF Head(sets).to_user_id = uid THEN Head(sets).amount ELSE 0)
         + SettlementsBalance(uid, Tail(sets))

\* variant of the next definition: the pass over db.settlements left out
RawBalance_noSettlements(uid, exps, refs, sets) ==
    ExpensesBalance(uid, exps, refs)

\* balances[uid] before rounding; only members have an entry in balances
RawBalance(uid, exps, refs, sets) ==
    RatAdd(ExpensesBalance(uid, exps, refs),
           Rat(SettlementsBalance(uid, sets), 1))

\* the list of BalanceEntry for a trip document and three collections
BalanceEntries(tr, exps, refs, sets, tie) ==
    LET keys == MemberKeys(tr)
    IN  [k \in 1..Len(keys) |->
            [user_id |-> keys[k],
             balance |-> Round2(RawBalance(keys[k], exps, refs, sets), tie[keys[k]])]]

get_trip_balances(tie) ==
    BalanceEntries(trip, expenses, refunds, settlements, tie)

\* the members whose balance lies exactly halfway between two cents, and the
\* ways round() may resolve them (elsewhere the choice is immaterial)
IsTie(q) == q.d = 2

TieUsers(tr, exps, refs, sets) ==
    {u \in Range(MemberKeys(tr)) : IsTie(RawBalance(u, exps, refs, sets))}

TieOutcomes(tr, exps, refs, sets) ==
    {[u \in Users |-> u \in T] : T \in SUBSET TieUsers(tr, exps, refs, sets)}

Ties == TieOutcomes(trip, expenses, refunds, settlements)

RECURSIVE SumBalance(_)
SumBalance(bl) == IF bl = <<>> THEN 0 ELSE Head(bl).balance + SumBalance(Tail(bl))

\* variant of the next definition: the refunds of the expense not deducted
get_expense_net_amount_gross(expense_id) ==
    (CHOOSE x \in Range(expenses) : x.expense_id = expense_id).total_amount

\* net_amount of ExpenseResponse (get_expense, get_trip_expenses)
get_expense_net_amount(expense_id) ==
    LET e == CHOOSE x \in Range(expenses) : x.expense_id = expense_id
    IN  e.total_amount - SumAmount(ExpenseRefunds(expense_id, refunds))


\* get_trips / get_trip: "if user_id in refund.get('refunded_to', [])" debits
\* the share of a refund once, however often the user is listed
UserRefundShare(uid, refund) ==
    IF uid \in Range(refund.refunded_to)
    THEN Rat(refund.amount, Len(refund.refunded_to))
    ELSE Zero

RECURSIVE UserRefundDebit(_, _)
UserRefundDebit(uid, expense_refunds) ==
    IF expense_refunds = <<>> THEN Zero
    ELSE RatAdd(UserRefundShare(uid, Head(expense_refunds)),
                UserRefundDebit(uid, Tail(expense_refunds)))

\* what one pass of the loop over expenses adds to user_balance
UserExpenseContribution(uid, expense, refs) ==
    LET expense_refunds == ExpenseRefunds(expense.expense_id, refs)
        net_amount == expense.total_amount - SumAmount(expense_refunds)
        original_amount == expense.total_amount
        paid == Rat(PayerCredit(uid, expense.payers), 1)
        refunded == UserRefundDebit(uid, expense_refunds)
        owed == IF expense.splits # <<>> /\ original_amount > 0
                THEN SplitDebit(uid, expense.splits, net_amount, original_amount)
                ELSE Zero
    IN  RatSub(RatSub(paid, refunded), owed)

\* user_balance of get_trips and get_trip before rounding: the expenses and
\* refunds of the trip, no other collection
RECURSIVE UserBalance(_, _, _)
UserBalance(uid, exps, refs) ==
    IF exps = <<>> THEN Zero
    ELSE RatAdd(UserExpenseContribution(uid, Head(exps), refs),
                UserBalance(uid, Tail(exps), refs))

\* your_balance = round(user_balance, 2) of the TripResponse in the list
get_trips_your_balance(u, up) == Round2(UserBalance(u, expenses, refunds), up)

\* your_balance = round(user_balance, 2) of the single TripResponse
get_trip_your_balance(u, up) == Round2(UserBalance(u, expenses, refunds), up)

\* total_expenses += e.get("total_amount", 0) - total_refunded
RECURSIVE TotalExpenses(_, _)
TotalExpenses(exps, refs) ==
    IF exps = <<>> THEN 0
    ELSE Head(exps).total_amount
         - SumAmount(ExpenseRefunds(Head(exps).expense_id, refs))
         + TotalExpenses(Tail(exps), refs)

\* total_expenses of get_trips and of get_trip
get_trips_total_expenses == TotalExpenses(expenses, refunds)

get_trip_total_expenses == TotalExpenses(expenses, refunds)

----------------------------------------------------------------------------
(* Settlement planner: get_settlements *)

\* outcome of comparing a float that is one cent in exact arithmetic with the
\* literal 0.01: -1 below, 0 equal, 1 above
FloatErr == {-1, 0, 1}
FpChoices == [Users -> FloatErr]

\* x < 0.01 and x > 0.01 for an entry [amt, fe] of creditors/debtors
\* creditors[i][2] < 0.01 (and the same test for debtors[j][2])
BelowTol(x) == x.amt < Tolerance \/ (x.amt = Tolerance /\ x.fe = -1)
AboveTol(x) == x.amt > Tolerance \/ (x.amt = Tolerance /\ x.fe = 1)

\* sorted(xs, key=amount, reverse=True): stable, equal keys keep list order
RECURSIVE InsertDesc(_, _)
InsertDesc(x, s) ==
    IF s = <<>> THEN <<x>>
    ELSE IF Head(s).amt >= x.amt THEN <<Head(s)>> \o InsertDesc(x, Tail(s))
    ELSE <<x>> \o s

RECURSIVE SortDesc(_)
SortDesc(s) ==
    IF s = <<>> THEN <<>>
    ELSE InsertDesc(s[Len(s)], SortDesc(SubSeq(s, 1, Len(s) - 1)))

Creditors(balances_list) ==
    LET sel == SelectSeq(balances_list, LAMBDA b : b.balance > Tolerance)
    IN  SortDesc([k \in 1..Len(sel) |->
                    [user_id |-> sel[k].user_id, amt |-> sel[k].balance, fe |-> 0]])

\* variant of the next definition: the owed amount stored with its negative sign
Debtors_signed(balances_list) ==
    LET sel == SelectSeq(balances_list, LAMBDA b : b.balance < -Tolerance)
    IN  SortDesc([k \in 1..Len(sel) |->
                    [user_id |-> sel[k].user_id, amt |-> sel[k].balance, fe |-> 0]])

Debtors(balances_list) ==
    LET sel == SelectSeq(balances_list, LAMBDA b : b.balance < -Tolerance)
    IN  SortDesc([k \in 1..Len(sel) |->
                    [user_id |-> sel[k].user_id, amt |-> -sel[k].balance, fe |-> 0]])

\* the planner's local variables before the while loop
PlanInit(balances_list) ==
    [creditors |-> Creditors(balances_list), debtors |-> Debtors(balances_list),
     i |-> 0, j |-> 0, settlements |-> <<>>]

\* while i < len(creditors) and j < len(debtors)
LoopCond(st) == st.i < Len(st.creditors) /\ st.j < Len(st.debtors)

\* x - amount for entry x of user uid
Remaining(x, amount, fp) ==
    LET amt == x.amt - amount.amt
    IN  [user_id |-> x.user_id, amt |-> amt,
         fe |-> IF amt = Tolerance THEN fp[x.user_id] ELSE 0]

\* one pass of the while loop
LoopBody(st, fp) ==
    LET c == st.creditors[st.i + 1]
        d == st.debtors[st.j + 1]
        amount == IF c.amt < d.amt \/ (c.amt = d.amt /\ c.fe <= d.fe) THEN c ELSE d
        c2 == IF amount = c THEN [c EXCEPT !.amt = 0, !.fe = 0] ELSE Remaining(c, amount, fp)
        d2 == IF amount = d THEN [d EXCEPT !.amt = 0, !.fe = 0] ELSE Remaining(d, amount, fp)
    IN  [creditors |-> [st.creditors EXCEPT ![st.i + 1] = c2],
         debtors |-> [st.debtors EXCEPT ![st.j + 1] = d2],
         i |-> IF BelowTol(c2) THEN st.i + 1 ELSE st.i,
         j |-> IF BelowTol(d2) THEN st.j + 1 ELSE st.j,
         settlements |->
            IF AboveTol(amount)
            THEN Append(st.settlements,
                        [from_user_id |-> d.user_id, to_user_id |-> c.user_id,
                         amount |-> amount.amt])
            ELSE st.settlements]

RECURSIVE RunLoop(_, _)
RunLoop(st, fp) == IF LoopCond(st) THEN RunLoop(LoopBody(st, fp), fp) ELSE st

\* the suggestions returned for a balance list
SuggestionsFor(balances_list, fp) == RunLoop(PlanInit(balances_list), fp).settlements

get_settlements(tie, fp) == SuggestionsFor(get_trip_balances(tie), fp)

----------------------------------------------------------------------------
(* Request bodies the clients send, drawn from small sets *)

UserOrder == <<"A", "B", "C">>

\* A and B hold accounts and authenticate; C is only ever a guest placeholder
Actors == {"A", "B"}

\* the account that opens the trip and enters the documents
Authors == {"A"}

\* the users of S as a list
ListOf(S) == SelectSeq(UserOrder, LAMBDA u : u \in S)

\* the amount split evenly over the group S
EvenSplit(t, S) ==
    [k \in 1..Cardinality(S) |->
        [user_id |-> ListOf(S)[k], amount |-> t \div Cardinality(S)]]

\* ExpenseCreate: two cents paid by A for A and B, three cents paid by C for
\* all three
ExpenseInputs ==
    {[total_amount |-> 2, payers |-> <<[user_id |-> "A", amount |-> 2]>>,
      splits |-> EvenSplit(2, {"A", "B"})],
     [total_amount |-> 3, payers |-> <<[user_id |-> "C", amount |-> 3]>>,
      splits |-> EvenSplit(3, {"A", "B", "C"})]}

RecipientLists == {<<"A">>, <<"B", "C">>}

\* RefundCreate
RefundInputs ==
    {[expense_id |-> e, amount |-> 1, refunded_to |-> r] :
        e \in 1..MaxExpenses, r \in RecipientLists}

\* SettlementCreate
SettlementInputs ==
    {[from_user_id |-> "A", to_user_id |-> "B", amount |-> 1],
     [from_user_id |-> "C", to_user_id |-> "A", amount |-> MaxAmount - 1]}

----------------------------------------------------------------------------
(* Documents written by the handlers *)

ExpenseDoc(expense_id, inp, u) ==
    [expense_id |-> expense_id,
     total_amount |-> inp.total_amount,
     payers |-> inp.payers,
     splits |-> inp.splits,
     created_by |-> u]

RefundDoc(refund_id, inp, u) ==
    [refund_id |-> refund_id,
     expense_id |-> inp.expense_id,
     amount |-> inp.amount,
     refunded_to |-> inp.refunded_to,
     created_by |-> u]

SettlementDoc(settlement_id, inp, u) ==
    [settlement_id |-> settlement_id,
     from_user_id |-> inp.from_user_id,
     to_user_id |-> inp.to_user_id,
     amount |-> inp.amount,
     created_by |-> u]

\* the member entry create_trip writes for the creator: user_id, name, email
\* and picture, no username
CreatorEntry(user) ==
    [user_id |-> user.user_id, email |-> user.email, username |-> None]

\* the member entry add_member writes for a registered account
AccountEntry(existing_user) ==
    [user_id |-> existing_user.user_id, email |-> existing_user.email,
     username |-> existing_user.username]

\* the member entry add_member writes for an email without an account
GuestEntry(guest_id, member) ==
    [user_id |-> guest_id, email |-> member.email, username |-> None]

TripDoc(u, members, cur) == [created_by |-> u, members |-> members, currency |-> cur]

\* the entries of a trip created by the first of ids, the others added by email
MembersOf(ids) ==
    [k \in 1..Len(ids) |->
        IF k = 1 THEN CreatorEntry(RegisteredUsers[ids[k]])
        ELSE AccountEntry(RegisteredUsers[ids[k]])]

\* the four collections as one value
Store == <<trip, expenses, refunds, settlements>>

\* requests in progress.  get_trip_balances between its reads holds what it
\* has read so far; seen is the record of the store values that existed since
\* its first read
NoBalancesRequest ==
    [pc |-> "idle", trip |-> NoTrip, expenses |-> <<>>, all_refunds |-> <<>>,
     seen |-> {}, response |-> <<>>]

\* create_refund, delete_expense and delete_trip between their queries;
\* logged_out is the record of the session tokens whose holder logged out
NoRefundRequest ==
    [pc |-> "idle", user |-> "",
     refund |-> [expense_id |-> 0, amount |-> 0, refunded_to |-> <<>>]]

NoDeleteRequest == [pc |-> "idle", expense_id |-> 0]

NoRequests ==
    [get_trip_balances |-> NoBalancesRequest,
     create_refund |-> NoRefundRequest,
     delete_expense |-> NoDeleteRequest,
     delete_trip |-> [pc |-> "idle"],
     logged_out |-> {}]

BalancesInProgress == requests.get_trip_balances.pc \in {"expenses", "refunds", "settlements"}

\* the write handlers taken as one step end here: the store value they leave
\* is recorded for a get_trip_balances in progress, for at most MaxOverlap
\* values
ObserveStore ==
    IF BalancesInProgress
    THEN /\ Cardinality(requests.get_trip_balances.seen \cup {Store'}) <= MaxOverlap
         /\ requests' = [requests EXCEPT !.get_trip_balances.seen = @ \cup {Store'}]
    ELSE UNCHANGED requests

NoPlan == [pc |-> "idle", balances_list |-> <<>>, creditors |-> <<>>, debtors |-> <<>>,
           i |-> 0, j |-> 0, settlements |-> <<>>]

----------------------------------------------------------------------------
(* Handlers that write the store *)

\* ExpenseUpdate: a field is sent (has_x) or left None
ExpenseUpdates ==
    {[has_total |-> TRUE, total_amount |-> 3, has_payers |-> FALSE, payers |-> <<>>,
      has_splits |-> FALSE, splits |-> <<>>]}
    \cup {[has_total |-> TRUE, total_amount |-> e.total_amount,
           has_payers |-> TRUE, payers |-> e.payers,
           has_splits |-> TRUE, splits |-> e.splits] : e \in ExpenseInputs}

\* RefundUpdate
RefundUpdates ==
    {[has_amount |-> FALSE, amount |-> 0,
      has_refunded_to |-> TRUE, refunded_to |-> <<"A">>],
     [has_amount |-> TRUE, amount |-> 1,
      has_refunded_to |-> TRUE, refunded_to |-> <<"B", "C">>]}

\* a fresh identifier (uuid4 in the code): the least one not in use
FreshId(used, max) == CHOOSE n \in 1..max : n \notin used /\ \A m \in 1..(n - 1) : m \in used

ExpenseIds == {e.expense_id : e \in Range(expenses)}
RefundIds == {r.refund_id : r \in Range(refunds)}
SettlementIds == {x.settlement_id : x \in Range(settlements)}

Init ==
    /\ trip = NoTrip
    /\ expenses = <<>>
    /\ refunds = <<>>
    /\ settlements = <<>>
    /\ plan = NoPlan
    /\ users = RegisteredUsers
    /\ user_sessions = {}
    /\ requests = NoRequests

create_trip(u, cur) ==
    /\ trip = NoTrip
    /\ u \in DOMAIN users
    /\ trip' = TripDoc(u, <<CreatorEntry(users[u])>>, cur)
    /\ UNCHANGED <<expenses, refunds, settlements, plan, users, user_sessions>>
    /\ ObserveStore

\* TripAddMember: email and username are optional
ByEmail(email) == [email |-> email, username |-> None]
ByUsername(username) == [email |-> None, username |-> username]

\* str.lower() on the usernames that occur
Lower(username) ==
    CASE username = "Ann" -> "ann"
      [] username = "Bob" -> "bob"
      [] username = "Cat" -> "cat"
      [] OTHER -> username

\* the user ids some document of the trip mentions
LedgerUserIds ==
    UNION ({{p.user_id : p \in Range(e.payers)} \cup {x.user_id : x \in Range(e.splits)} :
                e \in Range(expenses)}
           \cup {Range(r.refunded_to) : r \in Range(refunds)}
           \cup {{x.from_user_id, x.to_user_id} : x \in Range(settlements)})

\* f"guest_{uuid.uuid4().hex[:8]}": an identifier no document holds
GuestNames == <<"guest_1", "guest_2", "guest_3", "guest_4">>
GuestIds == {GuestNames[n] : n \in 1..MaxGuests}
FreshGuestIds == GuestIds \ (MemberIds \cup LedgerUserIds)
FreshGuestId == GuestNames[CHOOSE n \in 1..MaxGuests :
                    /\ GuestNames[n] \in FreshGuestIds
                    /\ \A k \in 1..(n - 1) : GuestNames[k] \notin FreshGuestIds]

\* the member already in the trip that the duplicate check of add_member finds
ExistingMembers(check_email, check_username) ==
    {m \in Range(trip.members) :
        \/ check_email # None /\ m.email = check_email
        \/ check_username # None /\ m.username = check_username}

add_member(u, member) ==
    /\ member.email # None \/ member.username # None
    /\ IsMember(u)
    /\ LET check_email == member.email
           check_username == IF member.username # None THEN Lower(member.username) ELSE None
           query == IF member.username # None
                    THEN [username |-> Lower(member.username), email |-> None]
                    ELSE [username |-> None, email |-> member.email]
           existing_user == FindUser(query)
       IN  /\ ExistingMembers(check_email, check_username) = {}
           /\ existing_user = {} => FreshGuestIds # {}
           /\ trip' = [trip EXCEPT !.members =
                        Append(@, IF existing_user # {}
                                  THEN AccountEntry(CHOOSE x \in existing_user : TRUE)
                                  ELSE GuestEntry(FreshGuestId,
                                                  [member EXCEPT !.email =
                                                      IF @ # None THEN @ ELSE FreshGuestId]))]
    /\ UNCHANGED <<expenses, refunds, settlements, plan, users, user_sessions>>
    /\ ObserveStore

remove_member(u, m) ==
    /\ trip # NoTrip
    /\ trip.created_by = u
    /\ m # u
    /\ trip' = [trip EXCEPT !.members = SelectSeq(@, LAMBDA x : x.user_id # m)]
    /\ UNCHANGED <<expenses, refunds, settlements, plan, users, user_sessions>>
    /\ ObserveStore

create_expense(u, inp) ==
    /\ IsMember(u)
    /\ Len(expenses) < MaxExpenses
    /\ expenses' = Append(expenses, ExpenseDoc(FreshId(ExpenseIds, MaxExpenses), inp, u))
    /\ UNCHANGED <<trip, refunds, settlements, plan, users, user_sessions>>
    /\ ObserveStore

update_expense(u, expense_id, upd) ==
    /\ expense_id \in ExpenseIds
    /\ IsMember(u)
    /\ expenses' = [k \in 1..Len(expenses) |->
            IF expenses[k].expense_id = expense_id
            THEN [expenses[k] EXCEPT
                    !.total_amount = IF upd.has_total THEN upd.total_amount ELSE @,
                    !.payers = IF upd.has_payers THEN upd.payers ELSE @,
                    !.splits = IF upd.has_splits THEN upd.splits ELSE @]
            ELSE expenses[k]]
    /\ UNCHANGED <<trip, refunds, settlements, plan, users, user_sessions>>
    /\ ObserveStore

\* variant of the next definition: the refunds of the expense left in place
delete_expense_keepRefunds(u, expense_id) ==
    /\ \E e \in Range(expenses) : e.expense_id = expense_id /\ e.created_by = u
    /\ expenses' = SelectSeq(expenses, LAMBDA e : e.expense_id # expense_id)
    /\ UNCHANGED <<trip, refunds, settlements, plan, users, user_sessions>>
    /\ ObserveStore

\* delete_expense: found only by its author; the expense and the refunds
\* carrying its expense_id are deleted
delete_expense(u, expense_id) ==
    /\ \E e \in Range(expenses) : e.expense_id = expense_id /\ e.created_by = u
    /\ expenses' = SelectSeq(expenses, LAMBDA e : e.expense_id # expense_id)
    /\ refunds' = SelectSeq(refunds, LAMBDA r : r.expense_id # expense_id)
    /\ UNCHANGED <<trip, settlements, plan, users, user_sessions>>
    /\ ObserveStore

create_refund(u, inp) ==
    /\ inp.expense_id \in ExpenseIds
    /\ IsMember(u)
    /\ Len(refunds) < MaxRefunds
    /\ refunds' = Append(refunds, RefundDoc(FreshId(RefundIds, MaxRefunds), inp, u))
    /\ UNCHANGED <<trip, expenses, settlements, plan, users, user_sessions>>
    /\ ObserveStore

update_refund(u, refund_id, upd) ==
    /\ refund_id \in RefundIds
    /\ IsMember(u)
    /\ refunds' = [k \in 1..Len(refunds) |->
            IF refunds[k].refund_id = refund_id
            THEN [refunds[k] EXCEPT
                    !.amount = IF upd.has_amount THEN upd.amount ELSE @,
                    !.refunded_to = IF upd.has_refunded_to THEN upd.refunded_to ELSE @]
            ELSE refunds[k]]
    /\ UNCHANGED <<trip, expenses, settlements, plan, users, user_sessions>>
    /\ ObserveStore

delete_refund(u, refund_id) ==
    /\ \E r \in Range(refunds) : r.refund_id = refund_id /\ r.created_by = u
    /\ refunds' = SelectSeq(refunds, LAMBDA r : r.refund_id # refund_id)
    /\ UNCHANGED <<trip, expenses, settlements, plan, users, user_sessions>>
    /\ ObserveStore

create_settlement(u, inp) ==
    /\ IsMember(u)
    /\ inp.from_user_id \in MemberIds
    /\ inp.to_user_id \in MemberIds
    /\ Len(settlements) < MaxSettlements
    /\ settlements' = Append(settlements,
                             SettlementDoc(FreshId(SettlementIds, MaxSettlements), inp, u))
    /\ UNCHANGED <<trip, expenses, refunds, plan, users, user_sessions>>
    /\ ObserveStore

delete_settlement(u, settlement_id) ==
    /\ \E x \in Range(settlements) : x.settlement_id = settlement_id /\ x.created_by = u
    /\ settlements' = SelectSeq(settlements, LAMBDA x : x.settlement_id # settlement_id)
    /\ UNCHANGED <<trip, expenses, refunds, plan, users, user_sessions>>
    /\ ObserveStore

Next ==
    \/ \E u \in Authors, cur \in Currencies : create_trip(u, cur)
    \/ \E u \in Actors, m \in Users : add_member(u, ByEmail(Emails[m]))
    \/ \E u \in Actors, m \in Users : remove_member(u, m)
    \/ \E u \in Authors, inp \in ExpenseInputs : create_expense(u, inp)
    \/ \E u \in Actors, id \in 1..MaxExpenses, upd \in ExpenseUpdates : update_expense(u, id, upd)
    \/ \E u \in Actors, id \in 1..MaxExpenses : delete_expense(u, id)
    \/ \E u \in Authors, inp \in RefundInputs : create_refund(u, inp)
    \/ \E u \in Actors, id \in 1..MaxRefunds, upd \in RefundUpdates : update_refund(u, id, upd)
    \/ \E u \in Actors, id \in 1..MaxRefunds : delete_refund(u, id)
    \/ \E u \in Authors, inp \in SettlementInputs : create_settlement(u, inp)
    \/ \E u \in Actors, id \in 1..MaxSettlements : delete_settlement(u, id)

Spec == Init /\ [][Next]_vars

----------------------------------------------------------------------------
(* The read handler get_settlements, statement by statement *)

\* variant of the next definition: the suggestions of the previous request
\* are kept in the list the loop appends to
get_settlements_begin_stale(u, tie) ==
    /\ IsMember(u)
    /\ plan.pc \in {"idle", "done"}
    /\ plan' = [[pc |-> "loop", balances_list |-> get_trip_balances(tie)]
                @@ PlanInit(get_trip_balances(tie)) EXCEPT !.settlements = plan.settlements]
    /\ UNCHANGED <<trip, expenses, refunds, settlements, users, user_sessions, requests>>

\* balances_list = await get_trip_balances(trip_id, user), partition and sort;
\* a request starts when no other one is in progress
get_settlements_begin(u, tie) ==
    /\ IsMember(u)
    /\ plan.pc \in {"idle", "done"}
    /\ plan' = [pc |-> "loop", balances_list |-> get_trip_balances(tie)]
               @@ PlanInit(get_trip_balances(tie))
    /\ UNCHANGED <<trip, expenses, refunds, settlements, users, user_sessions, requests>>

PlanState == [creditors |-> plan.creditors, debtors |-> plan.debtors,
              i |-> plan.i, j |-> plan.j, settlements |-> plan.settlements]

\* fe: how the remainder of this pass, if it is one cent, compares with 0.01
get_settlements_loop(fe) ==
    /\ plan.pc = "loop"
    /\ LoopCond(PlanState)
    /\ plan' = [pc |-> "loop", balances_list |-> plan.balances_list]
               @@ LoopBody(PlanState, [u \in Users |-> fe])
    /\ UNCHANGED <<trip, expenses, refunds, settlements, users, user_sessions, requests>>

get_settlements_return ==
    /\ plan.pc = "loop"
    /\ ~LoopCond(PlanState)
    /\ plan' = [plan EXCEPT !.pc = "done"]
    /\ UNCHANGED <<trip, expenses, refunds, settlements, users, user_sessions, requests>>

----------------------------------------------------------------------------
(* Snapshots of the store handed to the read handlers *)

SeqsUpTo(S, n) == UNION {[1..k -> S] : k \in 0..n}

SnapshotMembers == {<<"A", "B", "C">>, <<"A", "B">>}

\* stored documents numbered by position, all created by the trip's creator
ExpenseDocs(inps, u) == [k \in 1..Len(inps) |-> ExpenseDoc(k, inps[k], u)]
RefundDocs(inps, u) == [k \in 1..Len(inps) |-> RefundDoc(k, inps[k], u)]
SettlementDocs(inps, u) == [k \in 1..Len(inps) |-> SettlementDoc(k, inps[k], u)]

\* the amounts of the repository's test scenarios, in whole currency units
Share(u, x) == [user_id |-> u, amount |-> Money(x)]

ScenarioExpenses ==
    {[total_amount |-> Money(3000), payers |-> <<Share("A", 3000)>>,
      splits |-> <<Share("A", 1500), Share("B", 1500)>>],
     [total_amount |-> Money(300), payers |-> <<Share("A", 300)>>,
      splits |-> <<Share("A", 100), Share("B", 100), Share("C", 100)>>],
     [total_amount |-> Money(600), payers |-> <<Share("A", 600)>>,
      splits |-> <<Share("A", 200), Share("B", 200), Share("C", 200)>>],
     [total_amount |-> Money(200), payers |-> <<Share("A", 200)>>,
      splits |-> <<Share("A", 200)>>]}

ScenarioRefunds ==
    {[expense_id |-> 1, amount |-> Money(1500), refunded_to |-> <<"B">>],
     [expense_id |-> 1, amount |-> Money(120), refunded_to |-> <<"B", "C">>],
     [expense_id |-> 1, amount |-> Money(30), refunded_to |-> <<"A">>],
     [expense_id |-> 1, amount |-> Money(20), refunded_to |-> <<"A">>]}

ScenarioSettlements ==
    {[from_user_id |-> "B", to_user_id |-> "A", amount |-> Money(2250)],
     [from_user_id |-> "B", to_user_id |-> "A", amount |-> Money(100)]}

\* ExpenseCreate is not validated: a body whose payers and splits are any
\* amounts up to MaxAmount, an entry per user with a non-zero amount
SharesOf(f) ==
    LET us == SelectSeq(UserOrder, LAMBDA u : f[u] # 0)
    IN  [k \in 1..Len(us) |-> [user_id |-> us[k], amount |-> f[us[k]]]]

UnvalidatedExpenses ==
    {[total_amount |-> MaxAmount,
      payers |-> SharesOf([u \in Users |-> IF b[u] > 0 THEN b[u] ELSE 0]),
      splits |-> SharesOf([u \in Users |-> IF b[u] < 0 THEN -b[u] ELSE 0])] :
        b \in [Users -> (-MaxAmount)..MaxAmount]}

\* the ledgers the refund tests enter: 3000 paid by A with 1000 refunded to B,
\* 4000 paid by A with 500 refunded to A and 500 to B
TestStatedLedgers ==
    {[expense |-> [total_amount |-> Money(3000), payers |-> <<Share("A", 3000)>>,
                   splits |-> <<Share("A", 1500), Share("B", 1500)>>],
      refunds |-> <<[expense_id |-> 1, amount |-> Money(1000), refunded_to |-> <<"B">>]>>],
     [expense |-> [total_amount |-> Money(4000), payers |-> <<Share("A", 4000)>>,
                   splits |-> <<Share("A", 2000), Share("B", 2000)>>],
      refunds |-> <<[expense_id |-> 1, amount |-> Money(500), refunded_to |-> <<"A">>],
                    [expense_id |-> 1, amount |-> Money(500), refunded_to |-> <<"B">>]>>]}

InitSnapshot ==
    /\ plan = NoPlan
    /\ users = RegisteredUsers
    /\ user_sessions = {}
    /\ requests = NoRequests
    /\ \E m \in SnapshotMembers : trip = TripDoc(Head(m), MembersOf(m), "INR")
    /\ \/ /\ \E es \in SeqsUpTo(ExpenseInputs, 1) :
                expenses = ExpenseDocs(es, trip.created_by)
          /\ \E rs \in SeqsUpTo({r \in RefundInputs : r.expense_id <= Len(expenses)},
                                MaxSnapshotRefunds) :
                refunds = RefundDocs(rs, trip.created_by)
          /\ \E ss \in SeqsUpTo(SettlementInputs, 1) :
                settlements = SettlementDocs(ss, trip.created_by)
       \/ /\ \E es \in SeqsUpTo(ScenarioExpenses, 1) :
                expenses = ExpenseDocs(es, trip.created_by)
          /\ \E rs \in SeqsUpTo({r \in ScenarioRefunds : r.expense_id <= Len(expenses)},
                                MaxSnapshotRefunds) :
                refunds = RefundDocs(rs, trip.created_by)
          /\ \E ss \in SeqsUpTo(ScenarioSettlements, 1) :
                settlements = SettlementDocs(ss, trip.created_by)
       \/ /\ \E e \in UnvalidatedExpenses : expenses = ExpenseDocs(<<e>>, trip.created_by)
          /\ refunds = <<>>
          /\ settlements = <<>>
       \/ /\ \E l \in TestStatedLedgers :
                /\ expenses = ExpenseDocs(<<l.expense>>, trip.created_by)
                /\ refunds = RefundDocs(l.refunds, trip.created_by)
          /\ settlements = <<>>

NextSnapshot ==
    \/ \E tie \in Ties : get_settlements_begin(trip.created_by, tie)
    \/ \E fe \in FloatErr : get_settlements_loop(fe)
    \/ get_settlements_return

SpecSnapshot == InitSnapshot /\ [][NextSnapshot]_vars

----------------------------------------------------------------------------
(* Amounts at the edge of the accepted range: the request models declare
   every amount as a plain float, so zero, negative and oversized values
   reach the handlers *)

\* ExpenseCreate bodies: an ordinary expense, one of total zero, one entered
\* with a negative total
EdgeExpenseInputs ==
    {[total_amount |-> 2, payers |-> <<[user_id |-> "A", amount |-> 2]>>,
      splits |-> EvenSplit(2, {"A", "B"})],
     [total_amount |-> 0, payers |-> <<[user_id |-> "A", amount |-> 0]>>,
      splits |-> EvenSplit(0, {"A", "B"})],
     [total_amount |-> -2, payers |-> <<[user_id |-> "A", amount |-> -2]>>,
      splits |-> EvenSplit(-2, {"A", "B"})]}

\* ExpenseUpdate bodies: only total_amount sent
EdgeExpenseUpdates ==
    {[has_total |-> TRUE, total_amount |-> t, has_payers |-> FALSE, payers |-> <<>>,
      has_splits |-> FALSE, splits |-> <<>>] : t \in {0, 1}}

\* RefundCreate bodies: within the total, negative, above the total
EdgeRefundInputs ==
    {[expense_id |-> 1, amount |-> a, refunded_to |-> <<"B">>] : a \in {1, -1, MaxAmount}}

\* RefundUpdate bodies: only amount sent
EdgeRefundUpdates ==
    {[has_amount |-> TRUE, amount |-> a, has_refunded_to |-> FALSE, refunded_to |-> <<>>] :
        a \in {2, -1}}

\* SettlementCreate bodies
EdgeSettlementInputs ==
    {[from_user_id |-> "B", to_user_id |-> "A", amount |-> a] : a \in {1, -1}}

\* a trip of A and B with nothing entered yet
InitEdge ==
    /\ trip = TripDoc("A", MembersOf(<<"A", "B">>), "INR")
    /\ expenses = <<>>
    /\ refunds = <<>>
    /\ settlements = <<>>
    /\ plan = NoPlan
    /\ users = RegisteredUsers
    /\ user_sessions = {}
    /\ requests = NoRequests

NextEdge ==
    \/ \E inp \in EdgeExpenseInputs : create_expense("A", inp)
    \/ \E id \in ExpenseIds, upd \in EdgeExpenseUpdates : update_expense("A", id, upd)
    \/ \E id \in ExpenseIds : delete_expense("A", id)
    \/ \E inp \in EdgeRefundInputs : create_refund("A", inp)
    \/ \E id \in RefundIds, upd \in EdgeRefundUpdates : update_refund("A", id, upd)
    \/ \E id \in RefundIds : delete_refund("A", id)
    \/ \E inp \in EdgeSettlementInputs : create_settlement("A", inp)
    \/ \E id \in SettlementIds : delete_settlement("A", id)

SpecEdge == InitEdge /\ [][NextEdge]_vars

----------------------------------------------------------------------------
(* Amounts near the largest double: the amounts are Python floats, so a sum
   beyond the largest finite value is inf and inf - inf is nan.  In this part
   an amount counts units of half the largest finite double (about 9e307);
   every such value is far above the 0.01 of the planner, and sums of them are
   exact until they overflow. *)

\* the largest finite value, in those units
MaxFloat == 2

MaxHugeSettlements == 2

Fin(n) == [k |-> "fin", n |-> n]
Inf(sign) == [k |-> "inf", n |-> sign]
NaN == [k |-> "nan", n |-> 0]

\* the float holding the exact value n
ToFloat(n) == IF n > MaxFloat THEN Inf(1) ELSE IF n < -MaxFloat THEN Inf(-1) ELSE Fin(n)

FNeg(x) == IF x.k = "nan" THEN NaN ELSE [x EXCEPT !.n = -x.n]

\* x + y
FAdd(x, y) ==
    IF x.k = "nan" \/ y.k = "nan" THEN NaN
    ELSE IF x.k = "inf" /\ y.k = "inf" THEN (IF x.n = y.n THEN x ELSE NaN)
    ELSE IF x.k = "inf" THEN x
    ELSE IF y.k = "inf" THEN y
    ELSE ToFloat(x.n + y.n)

\* x - y
FSub(x, y) == FAdd(x, FNeg(y))

\* x < y; every comparison with nan is False
FLess(x, y) ==
    /\ x.k # "nan" /\ y.k # "nan"
    /\ IF x.k = "inf" THEN x.n < 0 /\ ~(y.k = "inf" /\ y.n < 0)
       ELSE IF y.k = "inf" THEN y.n > 0
       ELSE x.n < y.n

\* x > 0.01 and x < 0.01 for a value that is 0, a whole number of units, inf or nan
FAboveTol(x) == FLess(Fin(0), x)
FBelowTol(x) == x.k # "nan" /\ ~FLess(Fin(0), x)

\* min(x, y) of Python: y if y < x, else x
FMin(x, y) == IF FLess(y, x) THEN y ELSE x

\* the pass over db.settlements in float arithmetic, in stored order; the
\* ledgers of this part hold no expense and no refund, so balances[uid] is 0
\* when the pass starts
RECURSIVE FloatSettlementsBalance(_, _, _)
FloatSettlementsBalance(uid, sets, acc) ==
    IF sets = <<>> THEN acc
    ELSE LET x == Head(sets)
             plus == IF x.from_user_id = uid THEN FAdd(acc, ToFloat(x.amount)) ELSE acc
             minus == IF x.to_user_id = uid THEN FSub(plus, ToFloat(x.amount)) ELSE plus
         IN  FloatSettlementsBalance(uid, Tail(sets), minus)

\* the BalanceEntry list; round(bal, 2) leaves these values as they are
get_trip_balances_float ==
    LET keys == MemberKeys(trip)
    IN  [k \in 1..Len(keys) |->
            [user_id |-> keys[k],
             balance |-> FloatSettlementsBalance(keys[k], settlements, Fin(0))]]

\* sorted(..., key=lambda x: x[2], reverse=True): stable, largest first
RECURSIVE FInsertDesc(_, _)
FInsertDesc(x, s) ==
    IF s = <<>> THEN <<x>>
    ELSE IF FLess(Head(s).amt, x.amt) THEN <<x>> \o s
    ELSE <<Head(s)>> \o FInsertDesc(x, Tail(s))

RECURSIVE FSortDesc(_)
FSortDesc(s) == IF s = <<>> THEN <<>> ELSE FInsertDesc(s[Len(s)], FSortDesc(SubSeq(s, 1, Len(s) - 1)))

FCreditors(balances_list) ==
    LET sel == SelectSeq(balances_list, LAMBDA b : FAboveTol(b.balance))
    IN  FSortDesc([k \in 1..Len(sel) |-> [user_id |-> sel[k].user_id, amt |-> sel[k].balance]])

FDebtors(balances_list) ==
    LET sel == SelectSeq(balances_list, LAMBDA b : FAboveTol(FNeg(b.balance)))
    IN  FSortDesc([k \in 1..Len(sel) |-> [user_id |-> sel[k].user_id, amt |-> FNeg(sel[k].balance)]])

\* one pass of the while loop on float amounts
FLoopBody(st) ==
    LET c == st.creditors[st.i + 1]
        d == st.debtors[st.j + 1]
        amount == FMin(c.amt, d.amt)
        c2 == FSub(c.amt, amount)
        d2 == FSub(d.amt, amount)
    IN  [st EXCEPT
            !.creditors[st.i + 1].amt = c2,
            !.debtors[st.j + 1].amt = d2,
            !.i = IF FBelowTol(c2) THEN st.i + 1 ELSE st.i,
            !.j = IF FBelowTol(d2) THEN st.j + 1 ELSE st.j,
            !.settlements = IF FAboveTol(amount)
                            THEN Append(@, [from_user_id |-> d.user_id,
                                            to_user_id |-> c.user_id, amount |-> amount])
                            ELSE @]

\* SettlementCreate bodies with amounts up to the largest finite double
HugeSettlementInputs ==
    {[from_user_id |-> f, to_user_id |-> t, amount |-> a] :
        f \in {"A"}, t \in {"B", "C"}, a \in {1, MaxFloat}}
    \cup {[from_user_id |-> "B", to_user_id |-> "A", amount |-> 1]}

\* a stored trip with recorded settlements only
InitHuge ==
    /\ plan = NoPlan
    /\ users = RegisteredUsers
    /\ user_sessions = {}
    /\ requests = NoRequests
    /\ \E m \in SnapshotMembers : trip = TripDoc(Head(m), MembersOf(m), "INR")
    /\ expenses = <<>>
    /\ refunds = <<>>
    /\ \E ss \in SeqsUpTo(HugeSettlementInputs, MaxHugeSettlements) :
            settlements = SettlementDocs(ss, trip.created_by)

get_settlements_begin_float(u) ==
    /\ IsMember(u)
    /\ plan.pc = "idle"
    /\ plan' = [pc |-> "loop", balances_list |-> get_trip_balances_float,
                creditors |-> FCreditors(get_trip_balances_float),
                debtors |-> FDebtors(get_trip_balances_float),
                i |-> 0, j |-> 0, settlements |-> <<>>]
    /\ UNCHANGED <<trip, expenses, refunds, settlements, users, user_sessions, requests>>

get_settlements_loop_float ==
    /\ plan.pc = "loop"
    /\ LoopCond(plan)
    /\ plan' = FLoopBody(plan)
    /\ UNCHANGED <<trip, expenses, refunds, settlements, users, user_sessions, requests>>

get_settlements_return_float ==
    /\ plan.pc = "loop"
    /\ ~LoopCond(plan)
    /\ plan' = [plan EXCEPT !.pc = "done"]
    /\ UNCHANGED <<trip, expenses, refunds, settlements, users, user_sessions, requests>>

NextHuge ==
    \/ get_settlements_begin_float(trip.created_by)
    \/ get_settlements_loop_float
    \/ get_settlements_return_float

SpecHuge == InitHuge /\ [][NextHuge]_vars

----------------------------------------------------------------------------
(* Deleting the trip *)

\* the accounts with a document in db.admins
Admins == {"C"}

\* delete_trip: found only by its creator; the trip, its expenses and its
\* refunds are deleted
delete_trip(u) ==
    /\ trip # NoTrip
    /\ trip.created_by = u
    /\ trip' = NoTrip
    /\ expenses' = <<>>
    /\ refunds' = <<>>
    /\ UNCHANGED <<settlements, plan, users, user_sessions>>
    /\ ObserveStore

\* admin_delete_trip: any trip, for an admin account
admin_delete_trip(u) ==
    /\ u \in Admins
    /\ trip # NoTrip
    /\ trip' = NoTrip
    /\ expenses' = <<>>
    /\ refunds' = <<>>
    /\ UNCHANGED <<settlements, plan, users, user_sessions>>
    /\ ObserveStore

NextDelete ==
    \/ \E u \in Actors : delete_trip(u)
    \/ \E u \in Users : admin_delete_trip(u)

\* a stored trip with its documents, then its deletion
SpecDelete == InitSnapshot /\ [][NextDelete]_vars

----------------------------------------------------------------------------
(* Accounts and membership: registration, usernames, and the member entries
   add_member writes for accounts and for emails without an account *)

\* f"session_{uuid.uuid4().hex}"
SessionNames == <<"session_1", "session_2", "session_3", "session_4">>
SessionTokens == {SessionNames[n] : n \in 1..MaxSessions}
FreshSessionTokens ==
    SessionTokens \ ({x.session_token : x \in user_sessions} \cup requests.logged_out)
FreshSessionToken ==
    SessionNames[CHOOSE n \in 1..MaxSessions :
                    /\ SessionNames[n] \in FreshSessionTokens
                    /\ \A k \in 1..(n - 1) : SessionNames[k] \notin FreshSessionTokens]
SessionDoc(user_id, session_token) == [user_id |-> user_id, session_token |-> session_token]

is_username_taken(username, exclude_user_id) ==
    \E id \in DOMAIN users :
        users[id].username = Lower(username) /\ id # exclude_user_id

\* the first entry of user_id gets the username; the loop breaks there
update_username_in_all_trips(members, user_id, username) ==
    LET hits == {k \in 1..Len(members) : members[k].user_id = user_id}
    IN  IF hits = {} THEN members
        ELSE [members EXCEPT ![CHOOSE k \in hits : \A j \in hits : k <= j].username = username]

update_username(u, username) ==
    /\ u \in DOMAIN users
    /\ ~is_username_taken(username, u)
    /\ users' = [users EXCEPT ![u].username = Lower(username)]
    /\ trip' = [trip EXCEPT !.members = update_username_in_all_trips(@, u, Lower(username))]
    /\ UNCHANGED <<expenses, refunds, settlements, plan, user_sessions>>
    /\ ObserveStore

\* member["user_id"].startswith("guest_")
IsGuestId(user_id) == user_id \in Range(GuestNames)

\* the guest entries of the trip that carry the email
GuestIdsOf(members, email) ==
    {m.user_id : m \in {x \in Range(members) : x.email = email /\ IsGuestId(x.user_id)}}

LinkedId(uid, olds, user_id) == IF uid \in olds THEN user_id ELSE uid

LinkedShares(shares, olds, user_id) ==
    [k \in 1..Len(shares) |->
        [shares[k] EXCEPT !.user_id = LinkedId(@, olds, user_id)]]

LinkedMembers(members, email, user_id) ==
    [k \in 1..Len(members) |->
        IF members[k].email = email /\ IsGuestId(members[k].user_id)
        THEN [members[k] EXCEPT !.user_id = user_id]
        ELSE members[k]]

LinkedExpenses(exps, olds, user_id) ==
    [k \in 1..Len(exps) |->
        [exps[k] EXCEPT !.payers = LinkedShares(@, olds, user_id),
                        !.splits = LinkedShares(@, olds, user_id)]]

LinkedRefunds(refs, olds, user_id) ==
    [k \in 1..Len(refs) |->
        [refs[k] EXCEPT !.refunded_to =
            [n \in 1..Len(@) |-> LinkedId(@[n], olds, user_id)]]]

LinkedSettlements(sets, olds, user_id) ==
    [k \in 1..Len(sets) |->
        [sets[k] EXCEPT !.from_user_id = LinkedId(@, olds, user_id),
                        !.to_user_id = LinkedId(@, olds, user_id)]]

\* variant of the next definition: the update_many on db.settlements left out
link_user_to_existing_trips_keepSettlements(user_id, email) ==
    LET olds == GuestIdsOf(trip.members, email)
    IN  /\ trip' = [trip EXCEPT !.members = LinkedMembers(@, email, user_id)]
        /\ expenses' = LinkedExpenses(expenses, olds, user_id)
        /\ refunds' = LinkedRefunds(refunds, olds, user_id)
        /\ settlements' = settlements

\* the guest entries with the email take the account's user_id, in the member
\* list and in every expense, refund and settlement of the trip
link_user_to_existing_trips(user_id, email) ==
    LET olds == GuestIdsOf(trip.members, email)
    IN  /\ trip' = [trip EXCEPT !.members = LinkedMembers(@, email, user_id)]
        /\ expenses' = LinkedExpenses(expenses, olds, user_id)
        /\ refunds' = LinkedRefunds(refunds, olds, user_id)
        /\ settlements' = LinkedSettlements(settlements, olds, user_id)

\* user_id: the fresh identifier of the account
register(user_id, email, username) ==
    /\ user_id \notin DOMAIN users
    /\ FindUser([email |-> email, username |-> None]) = {}
    /\ ~is_username_taken(username, None)
    /\ FreshSessionTokens # {}
    /\ users' = [id \in DOMAIN users \cup {user_id} |->
                    IF id = user_id THEN UserDoc(user_id, email, Lower(username))
                    ELSE users[id]]
    /\ link_user_to_existing_trips(user_id, email)
    /\ user_sessions' = user_sessions \cup {SessionDoc(user_id, FreshSessionToken)}
    /\ UNCHANGED <<plan>>
    /\ ObserveStore

\* A and B have accounts, C has none yet
InitialUsers == [u \in {"A", "B"} |-> RegisteredUsers[u]]

\* by email, by username as typed, and by a username nobody has
MemberRequests ==
    {ByEmail(Emails[m]) : m \in Users}
        \cup {ByUsername(n) : n \in {"Ann", "bob", "cat"}}

NewUsernames == {"ann", "Zed"}

InitMembers ==
    /\ trip = NoTrip
    /\ expenses = <<>>
    /\ refunds = <<>>
    /\ settlements = <<>>
    /\ plan = NoPlan
    /\ users = InitialUsers
    /\ user_sessions = {}
    /\ requests = NoRequests

NextMembers ==
    \/ \E u \in Authors, cur \in Currencies : create_trip(u, cur)
    \/ \E u \in Actors, member \in MemberRequests : add_member(u, member)
    \/ \E u \in Actors, m \in Users \cup GuestIds : remove_member(u, m)
    \/ \E u \in Authors, username \in NewUsernames : update_username(u, username)
    \/ register("C", Emails["C"], "Cat")

SpecMembers == InitMembers /\ [][NextMembers]_vars

----------------------------------------------------------------------------
(* A guest who registers: C was added by email before having an account, the
   ledger names the guest placeholder, then C registers *)

GuestExpenseInputs ==
    {[total_amount |-> Money(3), payers |-> <<Share("guest_1", 3)>>,
      splits |-> <<Share("A", 1), Share("guest_1", 2)>>],
     [total_amount |-> Money(3), payers |-> <<Share("A", 1), Share("guest_1", 2)>>,
      splits |-> <<Share("A", 3)>>],
     [total_amount |-> Money(2), payers |-> <<Share("A", 2)>>,
      splits |-> <<Share("A", 1), Share("guest_2", 1)>>]}

GuestRefundInputs ==
    {[expense_id |-> 1, amount |-> Money(1), refunded_to |-> <<"guest_1">>],
     [expense_id |-> 1, amount |-> 1, refunded_to |-> <<"A", "guest_1", "guest_1">>]}

GuestSettlementInputs ==
    {[from_user_id |-> "guest_1", to_user_id |-> "A", amount |-> Money(1)],
     [from_user_id |-> "A", to_user_id |-> "guest_1", amount |-> MaxAmount]}

InitLink ==
    /\ trip = TripDoc("A", <<CreatorEntry(RegisteredUsers["A"]),
                             GuestEntry("guest_1", ByEmail(Emails["C"]))>>, "INR")
    /\ expenses = <<>>
    /\ refunds = <<>>
    /\ settlements = <<>>
    /\ plan = NoPlan
    /\ users = InitialUsers
    /\ user_sessions = {}
    /\ requests = NoRequests

NextLink ==
    \/ add_member("A", ByEmail(Emails["C"]))
    \/ \E m \in GuestIds : remove_member("A", m)
    \/ \E inp \in GuestExpenseInputs : create_expense("A", inp)
    \/ \E inp \in GuestRefundInputs : create_refund("A", inp)
    \/ \E inp \in GuestSettlementInputs : create_settlement("A", inp)
    \/ register("C", Emails["C"], "Cat")

SpecLink == InitLink /\ [][NextLink]_vars

----------------------------------------------------------------------------
(* Sessions: login, the check every authenticated route makes, and logout *)

\* what a client sends: the session_token cookie and the token of an
\* "Authorization: Bearer ..." header, each present or not
AuthRequests == [cookie : SessionTokens \cup {None}, authorization : SessionTokens \cup {None}]

\* the token get_current_user takes from the request: the cookie, and the
\* header only without a cookie
SessionTokenOf(request) ==
    IF request.cookie # None THEN request.cookie ELSE request.authorization

Unauthorized == "401"

\* the user_id of the caller, or 401 without a token, without a stored
\* session for it, or without the session's user
get_current_user(request) ==
    LET session_token == SessionTokenOf(request)
        session == {x \in user_sessions : x.session_token = session_token}
    IN  IF session_token = None \/ session = {} THEN Unauthorized
        ELSE LET user_id == (CHOOSE x \in session : TRUE).user_id
             IN  IF user_id \in DOMAIN users THEN user_id ELSE Unauthorized

login(user_id) ==
    /\ user_id \in DOMAIN users
    /\ FreshSessionTokens # {}
    /\ user_sessions' = user_sessions \cup {SessionDoc(user_id, FreshSessionToken)}
    /\ UNCHANGED <<trip, expenses, refunds, settlements, plan, users, requests>>

\* the session of the cookie's token is deleted; the route does not look at
\* the Authorization header.  A logout of an authenticated client is recorded.
logout(request) ==
    /\ user_sessions' = IF request.cookie # None
                        THEN {x \in user_sessions : x.session_token # request.cookie}
                        ELSE user_sessions
    /\ requests' = [requests EXCEPT !.logged_out =
                        IF get_current_user(request) # Unauthorized
                        THEN @ \cup {SessionTokenOf(request)} ELSE @]
    /\ UNCHANGED <<trip, expenses, refunds, settlements, plan, users>>

InitSessions ==
    /\ trip = NoTrip
    /\ expenses = <<>>
    /\ refunds = <<>>
    /\ settlements = <<>>
    /\ plan = NoPlan
    /\ users = RegisteredUsers
    /\ user_sessions = {}
    /\ requests = NoRequests

NextSessions ==
    \/ \E user_id \in Users : login(user_id)
    \/ \E request \in AuthRequests : logout(request)

SpecSessions == InitSessions /\ [][NextSessions]_vars

----------------------------------------------------------------------------
(* Members who leave: a trip of A and B where B enters records and the
   creator A removes B and may add B again *)

InitAccess ==
    /\ trip = TripDoc("A", MembersOf(<<"A", "B">>), "INR")
    /\ expenses = <<>>
    /\ refunds = <<>>
    /\ settlements = <<>>
    /\ plan = NoPlan
    /\ users = RegisteredUsers
    /\ user_sessions = {}
    /\ requests = NoRequests

NextAccess ==
    \/ \E m \in Users : add_member("A", ByEmail(Emails[m]))
    \/ \E u \in Actors, m \in Users : remove_member(u, m)
    \/ \E u \in Actors, inp \in ExpenseInputs : create_expense(u, inp)
    \/ \E u \in Actors, id \in 1..MaxExpenses, upd \in ExpenseUpdates : update_expense(u, id, upd)
    \/ \E u \in Actors, id \in 1..MaxExpenses : delete_expense(u, id)
    \/ \E u \in Actors, inp \in RefundInputs : create_refund(u, inp)
    \/ \E u \in Actors, id \in 1..MaxRefunds, upd \in RefundUpdates : update_refund(u, id, upd)
    \/ \E u \in Actors, id \in 1..MaxRefunds : delete_refund(u, id)
    \/ \E u \in Actors, inp \in SettlementInputs : create_settlement(u, inp)
    \/ \E u \in Actors, id \in 1..MaxSettlements : delete_settlement(u, id)

SpecAccess == InitAccess /\ [][NextAccess]_vars

----------------------------------------------------------------------------
(* Well-formed data *)

RECURSIVE SumShares(_)
SumShares(shares) ==
    IF shares = <<>> THEN 0 ELSE Head(shares).amount + SumShares(Tail(shares))

ShareUsers(shares) == {shares[k].user_id : k \in 1..Len(shares)}

WellFormedExpense(e) ==
    /\ e.total_amount > 0
    /\ SumShares(e.payers) = e.total_amount
    /\ SumShares(e.splits) = e.total_amount
    /\ SumAmount(ExpenseRefunds(e.expense_id, refunds)) <= e.total_amount

ReferencedUsers ==
    UNION {ShareUsers(e.payers) \cup ShareUsers(e.splits) : e \in Range(expenses)}
    \cup UNION {Range(r.refunded_to) : r \in Range(refunds)}
    \cup UNION {{x.from_user_id, x.to_user_id} : x \in Range(settlements)}

WellFormedLedger ==
    /\ trip # NoTrip
    /\ \A e \in Range(expenses) : WellFormedExpense(e)
    /\ \A r \in Range(refunds) : r.refunded_to # <<>> /\ r.expense_id \in ExpenseIds
    /\ ReferencedUsers \subseteq MemberIds

BalanceOf(bl, u) == (CHOOSE b \in Range(bl) : b.user_id = u).balance

----------------------------------------------------------------------------
(* get_trip_balances read by read: each await hands control to the other
   requests, so writes may fall between its four queries *)

\* db.trips.find_one with the caller among the members
get_trip_balances_find_trip(u) ==
    /\ requests.get_trip_balances.pc = "idle"
    /\ IsMember(u)
    /\ requests' = [requests EXCEPT !.get_trip_balances =
                        [pc |-> "expenses", trip |-> trip, expenses |-> <<>>,
                         all_refunds |-> <<>>, seen |-> {Store}, response |-> <<>>]]
    /\ UNCHANGED <<trip, expenses, refunds, settlements, plan, users, user_sessions>>

\* db.expenses.find
get_trip_balances_find_expenses ==
    /\ requests.get_trip_balances.pc = "expenses"
    /\ requests' = [requests EXCEPT !.get_trip_balances.pc = "refunds",
                                    !.get_trip_balances.expenses = expenses]
    /\ UNCHANGED <<trip, expenses, refunds, settlements, plan, users, user_sessions>>

\* db.refunds.find
get_trip_balances_find_refunds ==
    /\ requests.get_trip_balances.pc = "refunds"
    /\ requests' = [requests EXCEPT !.get_trip_balances.pc = "settlements",
                                    !.get_trip_balances.all_refunds = refunds]
    /\ UNCHANGED <<trip, expenses, refunds, settlements, plan, users, user_sessions>>

\* db.settlements.find, the accumulation over what was read, and the response
get_trip_balances_return ==
    /\ requests.get_trip_balances.pc = "settlements"
    /\ LET r == requests.get_trip_balances
       IN  \E tie \in TieOutcomes(r.trip, r.expenses, r.all_refunds, settlements) :
               requests' = [requests EXCEPT
                   !.get_trip_balances.pc = "done",
                   !.get_trip_balances.response =
                       BalanceEntries(r.trip, r.expenses, r.all_refunds, settlements, tie)]
    /\ UNCHANGED <<trip, expenses, refunds, settlements, plan, users, user_sessions>>

\* requests of the other clients of the trip, all naming current members
ConcurrentExpenseInputs ==
    {[total_amount |-> Money(4), payers |-> <<Share("A", 4)>>,
      splits |-> <<Share("A", 2), Share("B", 2)>>],
     [total_amount |-> Money(3), payers |-> <<Share("C", 3)>>,
      splits |-> <<Share("A", 1), Share("B", 1), Share("C", 1)>>]}

ConcurrentRefundInputs ==
    {[expense_id |-> 1, amount |-> Money(3), refunded_to |-> <<"A">>]}

ConcurrentSettlementInputs ==
    {[from_user_id |-> "B", to_user_id |-> "A", amount |-> Money(1)]}

InitRead ==
    /\ trip = TripDoc("A", MembersOf(<<"A", "B">>), "INR")
    /\ expenses = <<>>
    /\ refunds = <<>>
    /\ settlements = <<>>
    /\ plan = NoPlan
    /\ users = RegisteredUsers
    /\ user_sessions = {}
    /\ requests = NoRequests

NextRead ==
    \/ \E u \in Actors : get_trip_balances_find_trip(u)
    \/ get_trip_balances_find_expenses
    \/ get_trip_balances_find_refunds
    \/ get_trip_balances_return
    \/ add_member("A", ByEmail(Emails["C"]))
    \/ \E inp \in ConcurrentExpenseInputs :
            /\ ShareUsers(inp.payers) \cup ShareUsers(inp.splits) \subseteq MemberIds
            /\ create_expense("A", inp)
    \/ \E inp \in ConcurrentRefundInputs : create_refund("A", inp)
    \/ \E id \in 1..MaxExpenses : delete_expense("A", id)
    \/ \E inp \in ConcurrentSettlementInputs : create_settlement("A", inp)

SpecRead == InitRead /\ [][NextRead]_vars

----------------------------------------------------------------------------
(* create_refund, delete_expense and delete_trip query by query: each await
   hands control to the other requests *)

\* db.expenses.find_one({"expense_id": refund.expense_id}), or 404
create_refund_find_expense(u, inp) ==
    /\ requests.create_refund.pc = "idle"
    /\ inp.expense_id \in ExpenseIds
    /\ requests' = [requests EXCEPT !.create_refund =
                        [pc |-> "trip", user |-> u, refund |-> inp]]
    /\ UNCHANGED <<trip, expenses, refunds, settlements, plan, users, user_sessions>>

\* db.trips.find_one with the caller among the members, or 404
create_refund_find_trip ==
    /\ requests.create_refund.pc = "trip"
    /\ requests' = [requests EXCEPT !.create_refund =
                        IF IsMember(@.user) THEN [@ EXCEPT !.pc = "insert"]
                        ELSE NoRefundRequest]
    /\ UNCHANGED <<trip, expenses, refunds, settlements, plan, users, user_sessions>>

\* db.refunds.insert_one(refund_doc)
create_refund_insert_one ==
    /\ requests.create_refund.pc = "insert"
    /\ Len(refunds) < MaxRefunds
    /\ refunds' = Append(refunds, RefundDoc(FreshId(RefundIds, MaxRefunds),
                                            requests.create_refund.refund,
                                            requests.create_refund.user))
    /\ requests' = [requests EXCEPT !.create_refund = NoRefundRequest]
    /\ UNCHANGED <<trip, expenses, settlements, plan, users, user_sessions>>

\* db.expenses.find_one by id and author, then db.expenses.delete_one
delete_expense_delete_one(u, expense_id) ==
    /\ requests.delete_expense.pc = "idle"
    /\ \E e \in Range(expenses) : e.expense_id = expense_id /\ e.created_by = u
    /\ expenses' = SelectSeq(expenses, LAMBDA e : e.expense_id # expense_id)
    /\ requests' = [requests EXCEPT !.delete_expense =
                        [pc |-> "refunds", expense_id |-> expense_id]]
    /\ UNCHANGED <<trip, refunds, settlements, plan, users, user_sessions>>

\* db.refunds.delete_many({"expense_id": expense_id})
delete_expense_delete_many ==
    /\ requests.delete_expense.pc = "refunds"
    /\ refunds' = SelectSeq(refunds,
                            LAMBDA r : r.expense_id # requests.delete_expense.expense_id)
    /\ requests' = [requests EXCEPT !.delete_expense = NoDeleteRequest]
    /\ UNCHANGED <<trip, expenses, settlements, plan, users, user_sessions>>

\* db.trips.find_one by id and creator, then db.trips.delete_one
delete_trip_delete_one(u) ==
    /\ requests.delete_trip.pc = "idle"
    /\ trip # NoTrip
    /\ trip.created_by = u
    /\ trip' = NoTrip
    /\ requests' = [requests EXCEPT !.delete_trip.pc = "expenses"]
    /\ UNCHANGED <<expenses, refunds, settlements, plan, users, user_sessions>>

\* db.expenses.delete_many({"trip_id": trip_id})
delete_trip_delete_expenses ==
    /\ requests.delete_trip.pc = "expenses"
    /\ expenses' = <<>>
    /\ requests' = [requests EXCEPT !.delete_trip.pc = "refunds"]
    /\ UNCHANGED <<trip, refunds, settlements, plan, users, user_sessions>>

\* db.refunds.delete_many({"trip_id": trip_id})
delete_trip_delete_refunds ==
    /\ requests.delete_trip.pc = "refunds"
    /\ refunds' = <<>>
    /\ requests' = [requests EXCEPT !.delete_trip.pc = "idle"]
    /\ UNCHANGED <<trip, expenses, settlements, plan, users, user_sessions>>

\* a trip of A and B with one expense entered by A or by B
InitRace ==
    /\ trip = TripDoc("A", MembersOf(<<"A", "B">>), "INR")
    /\ \E u \in Actors, es \in SeqsUpTo(ExpenseInputs, MaxExpenses) :
            es # <<>> /\ expenses = ExpenseDocs(es, u)
    /\ refunds = <<>>
    /\ settlements = <<>>
    /\ plan = NoPlan
    /\ users = RegisteredUsers
    /\ user_sessions = {}
    /\ requests = NoRequests

NextRace ==
    \/ \E u \in Actors, inp \in RefundInputs : create_refund_find_expense(u, inp)
    \/ create_refund_find_trip
    \/ create_refund_insert_one
    \/ \E u \in Actors, id \in 1..MaxExpenses : delete_expense_delete_one(u, id)
    \/ delete_expense_delete_many
    \/ \E u \in Actors : delete_trip_delete_one(u)
    \/ delete_trip_delete_expenses
    \/ delete_trip_delete_refunds
    \/ \E u \in Actors, id \in 1..MaxRefunds : delete_refund(u, id)
    \/ remove_member("A", "B")

SpecRace == InitRace /\ [][NextRace]_vars

----------------------------------------------------------------------------
(* Sums written independently of the accumulator, for the reference values *)

RECURSIVE SumRatOver(_, _)
SumRatOver(S, f) ==
    IF S = {} THEN Zero
    ELSE LET x == CHOOSE y \in S : TRUE
         IN  RatAdd(f[x], SumRatOver(S \ {x}, f))

\* sum of shares[k].amount over the entries of user m
ShareOf(m, shares) ==
    LET K == {k \in 1..Len(shares) : shares[k].user_id = m}
    IN  SumRatOver(K, [k \in K |-> Rat(shares[k].amount, 1)])

\* total refunded against an expense: every stored refund naming it
TotalRefunded(expense_id) ==
    LET K == {k \in 1..Len(refunds) : refunds[k].expense_id = expense_id}
    IN  SumRatOver(K, [k \in K |-> Rat(refunds[k].amount, 1)]).n

SuggestionUsers(sug) ==
    {sug[k].from_user_id : k \in 1..Len(sug)} \cup {sug[k].to_user_id : k \in 1..Len(sug)}

SumPositive(bl) ==
    LET K == {k \in 1..Len(bl) : bl[k].balance > 0}
    IN  SumRatOver(K, [k \in K |-> Rat(bl[k].balance, 1)]).n

----------------------------------------------------------------------------
(* C1 *)

\* C1: on well-formed data (payers and splits summing to a positive total,
\* refunds with recipients totalling at most the total, every referenced user
\* a member) the rounded balances returned by get_trip_balances sum to zero
\* with absolute error below 0.01.  A balance lying exactly halfway between
\* two cents is counted with whichever rounding favours the claim, so a
\* violation does not depend on how the float happens to round.
C1_ZeroSumWellFormed ==
    WellFormedLedger
        => \E tie \in Ties : Abs(SumBalance(get_trip_balances(tie))) < Tolerance

----------------------------------------------------------------------------
(* C3 *)

ReferencePaid(m) ==
    LET K == 1..Len(expenses)
    IN  SumRatOver(K, [k \in K |-> ShareOf(m, expenses[k].payers)])

ReferenceRefunded(m) ==
    LET K == {k \in 1..Len(refunds) : m \in Range(refunds[k].refunded_to)}
    IN  SumRatOver(K, [k \in K |-> Rat(refunds[k].amount, Len(refunds[k].refunded_to))])

ReferenceOwed(m) ==
    LET K == {<<k, n>> \in (1..Len(expenses)) \X (1..3) :
                n <= Len(expenses[k].splits) /\ expenses[k].splits[n].user_id = m}
    IN  SumRatOver(K, [x \in K |->
            LET e == expenses[x[1]]
            IN  RatScale(e.total_amount - TotalRefunded(e.expense_id),
                         Rat(e.splits[x[2]].amount, e.total_amount))])

ReferenceSettled(m) ==
    LET F == {k \in 1..Len(settlements) : settlements[k].from_user_id = m}
        T == {k \in 1..Len(settlements) : settlements[k].to_user_id = m}
    IN  RatSub(SumRatOver(F, [k \in F |-> Rat(settlements[k].amount, 1)]),
               SumRatOver(T, [k \in T |-> Rat(settlements[k].amount, 1)]))

ReferenceBalance(m) ==
    RatAdd(RatSub(RatSub(ReferencePaid(m), ReferenceRefunded(m)), ReferenceOwed(m)),
           ReferenceSettled(m))

----------------------------------------------------------------------------
(* C4 *)

GoaLedger ==
    /\ {"A", "B"} \subseteq MemberIds
    /\ Len(expenses) = 1
    /\ expenses[1].total_amount = Money(3000)
    /\ expenses[1].payers = <<Share("A", 3000)>>
    /\ expenses[1].splits = <<Share("A", 1500), Share("B", 1500)>>
    /\ Len(refunds) = 1
    /\ refunds[1].expense_id = expenses[1].expense_id
    /\ refunds[1].amount = Money(1500)
    /\ refunds[1].refunded_to = <<"B">>
    /\ settlements = <<>>

\* C4: expense of 3000 paid by A, split 1500/1500 between A and B, one refund
\* of 1500 to B: get_trip_balances returns A = +2250 and B = -2250 and
\* get_settlements returns exactly the suggestion B -> A of 2250.
C4_GoaScenario ==
    (GoaLedger /\ plan.pc = "done")
        => /\ BalanceOf(plan.balances_list, "A") = Money(2250)
           /\ BalanceOf(plan.balances_list, "B") = -Money(2250)
           /\ plan.settlements =
                <<[from_user_id |-> "B", to_user_id |-> "A", amount |-> Money(2250)]>>

C4_Witness == GoaLedger /\ plan.pc = "done"

----------------------------------------------------------------------------
(* C5 *)

BaselineLedger ==
    /\ MemberKeys(trip) = <<"A", "B", "C">>
    /\ Len(expenses) = 1
    /\ expenses[1].total_amount = Money(300)
    /\ expenses[1].payers = <<Share("A", 300)>>
    /\ expenses[1].splits = <<Share("A", 100), Share("B", 100), Share("C", 100)>>
    /\ refunds = <<>>
    /\ settlements = <<>>

\* C5: an expense without refunds whose splits sum to its total contributes
\* to every member exactly (amount paid) - (original split amount); 300 paid
\* by one member and split 100/100/100 gives +200, -100, -100.
C5_NoRefundBaseline ==
    /\ \A e \in Range(expenses) :
        (/\ ExpenseRefunds(e.expense_id, refunds) = <<>>
         /\ e.total_amount > 0
         /\ SumShares(e.splits) = e.total_amount)
            => \A m \in Users :
                ExpenseContribution(m, e, refunds)
                    = RatSub(ShareOf(m, e.payers), ShareOf(m, e.splits))
    /\ (BaselineLedger /\ plan.pc # "idle")
        => plan.balances_list = <<[user_id |-> "A", balance |-> Money(200)],
                                  [user_id |-> "B", balance |-> -Money(100)],
                                  [user_id |-> "C", balance |-> -Money(100)]>>

C5_Witness == BaselineLedger /\ plan.pc = "done"

----------------------------------------------------------------------------
(* C7 *)

PlanComplete(st, bl) ==
    /\ st.i = Len(st.creditors)
    /\ st.j = Len(st.debtors)
    /\ Abs(SumAmount(st.settlements) - SumPositive(bl)) <= Tolerance

\* C7: for a balance list that sums to zero the greedy loop ends with both
\* indices at the end of their lists and the suggested amounts add up to the
\* sum of the positive balances (to within 0.01).  Roundings and float
\* comparisons are taken in the way that favours the claim.
C7_SettlementCompleteness ==
    trip # NoTrip
        => \E tie \in Ties, fp \in FpChoices :
            LET bl == get_trip_balances(tie)
            IN  SumBalance(bl) = 0 => PlanComplete(RunLoop(PlanInit(bl), fp), bl)

----------------------------------------------------------------------------
(* C9 *)

\* C9 as stated: a member at exactly +-0.01 is in no suggestion, and a member
\* at +-0.02 facing a member at the opposite -+0.02 is in a suggestion.
\* Roundings and float comparisons are taken in the way that favours the claim.
C9_ToleranceBoundary ==
    trip # NoTrip
        => \E tie \in Ties, fp \in FpChoices :
            LET bl == get_trip_balances(tie)
                sug == SuggestionsFor(bl, fp)
            IN  /\ \A b \in Range(bl) :
                    Abs(b.balance) = Tolerance => b.user_id \notin SuggestionUsers(sug)
                /\ \A b \in Range(bl), c \in Range(bl) :
                    (b.balance = 2 * Tolerance /\ c.balance = -2 * Tolerance)
                        => {b.user_id, c.user_id} \subseteq SuggestionUsers(sug)

\* C9 amended: a member at exactly +-0.01 is in no suggestion; members at
\* +0.02 and -0.02 are each in a suggestion when every other member is within
\* the tolerance band, the suggestion being -0.02 pays +0.02 the amount 0.02.
C9_ToleranceBoundaryAmended ==
    plan.pc = "done"
        => /\ \A b \in Range(plan.balances_list) :
                Abs(b.balance) = Tolerance
                    => b.user_id \notin SuggestionUsers(plan.settlements)
           /\ \A b \in Range(plan.balances_list), c \in Range(plan.balances_list) :
                (/\ b.balance = 2 * Tolerance
                 /\ c.balance = -2 * Tolerance
                 /\ \A o \in Range(plan.balances_list) \ {b, c} :
                        Abs(o.balance) <= Tolerance)
                    => plan.settlements =
                        <<[from_user_id |-> c.user_id, to_user_id |-> b.user_id,
                           amount |-> 2 * Tolerance]>>

C9_Witness ==
    /\ plan.pc = "done"
    /\ \E b \in Range(plan.balances_list) : b.balance = 2 * Tolerance
    /\ \E b \in Range(plan.balances_list) : b.balance = -2 * Tolerance
    /\ \E b \in Range(plan.balances_list) : Abs(b.balance) = Tolerance
    /\ Len(plan.settlements) = 1

----------------------------------------------------------------------------
(* C10 *)

\* the refunds as stored had they been created in the order p
Reordered(p) == [k \in 1..Len(refunds) |-> [refunds[p[k]] EXCEPT !.refund_id = k]]

MultiRefundLedger ==
    /\ Len(expenses) = 1
    /\ expenses[1].total_amount = Money(200)
    /\ Len(refunds) = 2
    /\ refunds[1].amount = Money(30)
    /\ refunds[2].amount = Money(20)

----------------------------------------------------------------------------
(* C2 *)

\* payers and splits of every stored expense each sum to its total
SharesSumToTotal ==
    \A e \in Range(expenses) :
        /\ e.total_amount > 0
        /\ SumShares(e.payers) = e.total_amount
        /\ SumShares(e.splits) = e.total_amount

\* C2: in every state reached through the write handlers, with the payers and
\* splits of every expense summing to its total, the balances returned by
\* get_trip_balances sum to zero within the rounding tolerance of 0.01, also
\* after remove_member removed a payer, split member, refund recipient or
\* settlement party.  Half-cent roundings are taken in the way that favours
\* the claim.
C2_ZeroSumEverySnapshot ==
    (trip # NoTrip /\ SharesSumToTotal)
        => \E tie \in Ties : Abs(SumBalance(get_trip_balances(tie))) <= Tolerance

----------------------------------------------------------------------------
(* C6 *)

\* the responses get_trip_balances can give with the settlement records sets
BalanceResponses(sets) ==
    {BalanceEntries(trip, expenses, refunds, sets, tie) :
        tie \in TieOutcomes(trip, expenses, refunds, sets)}

SettledDelta(m, x) ==
    IF m = x.from_user_id THEN x.amount
    ELSE IF m = x.to_user_id THEN -x.amount
    ELSE 0

SettlementById(settlement_id) ==
    CHOOSE x \in Range(settlements) : x.settlement_id = settlement_id

\* C6 as stated: recording a settlement of amount a from X to Y raises X's
\* returned balance by exactly a, lowers Y's by exactly a and leaves the other
\* members' balances as they were; delete_settlement takes the effect back.
C6_SettlementEffect ==
    [][settlements' # settlements =>
        /\ \A u \in Actors, inp \in SettlementInputs :
            create_settlement(u, inp)
                => \A before \in BalanceResponses(settlements),
                      after \in BalanceResponses(settlements') :
                        \A m \in MemberIds :
                            BalanceOf(after, m) = BalanceOf(before, m) + SettledDelta(m, inp)
        /\ \A u \in Actors, id \in 1..MaxSettlements :
            delete_settlement(u, id)
                => \A before \in BalanceResponses(settlements),
                      after \in BalanceResponses(settlements') :
                        \A m \in MemberIds :
                            BalanceOf(after, m)
                                = BalanceOf(before, m) - SettledDelta(m, SettlementById(id))
      ]_vars

\* the values round(bal, 2) may return for the unrounded balance raw
Returned(raw) == {Round2(raw, up) : up \in BOOLEAN}

\* the effect of one record x on every member, between the ledgers with the
\* records sets1 (without x) and sets2 (with x)
EffectOf(x, sets1, sets2) ==
    \A m \in MemberIds :
        LET raw1 == RawBalance(m, expenses, refunds, sets1)
            raw2 == RawBalance(m, expenses, refunds, sets2)
            a == SettledDelta(m, x)
        IN  /\ raw2 = RatAdd(raw1, Rat(a, 1))
            /\ \A b1 \in Returned(raw1), b2 \in Returned(raw2) :
                /\ Abs(b2 - b1 - a) <= Tolerance
                /\ ~IsTie(raw1) => b2 = b1 + a

\* C6 amended: recording a settlement of amount a from X to Y raises X's
\* unrounded balance by exactly a, lowers Y's by exactly a and leaves the
\* others' unchanged; the returned (rounded) balances change by the same
\* amounts exactly unless the unrounded balance lies halfway between two
\* cents, and then to within 0.01; delete_settlement takes the effect back.
C6_SettlementEffectAmended ==
    [][settlements' # settlements =>
        /\ \A u \in Actors, inp \in SettlementInputs :
            create_settlement(u, inp) => EffectOf(inp, settlements, settlements')
        /\ \A u \in Actors, id \in 1..MaxSettlements :
            delete_settlement(u, id)
                => EffectOf(SettlementById(id), settlements', settlements)
      ]_vars

\* a settlement is recorded while a party's unrounded balance is at a half cent
C6_Witness ==
    /\ settlements # <<>>
    /\ \E m \in MemberIds :
        /\ m \in {settlements[1].from_user_id, settlements[1].to_user_id}
        /\ IsTie(RawBalance(m, expenses, refunds, settlements))

----------------------------------------------------------------------------
(* C8 *)

\* the settlement records after create_settlement of every suggestion
Recorded(sug) ==
    settlements \o [k \in 1..Len(sug) |->
                        SettlementDoc(Len(settlements) + k, sug[k], trip.created_by)]

\* C8: on well-formed data, once every suggestion of get_settlements is recorded with
\* create_settlement, get_trip_balances has every member within 0.01 of zero
\* and get_settlements returns the empty list.  Roundings and float
\* comparisons are taken in the way that favours the claim.
C8_SuggestionsSettleTrip ==
    (trip # NoTrip /\ WellFormedLedger)
        => \E tie \in Ties, fp \in FpChoices :
            LET sug == SuggestionsFor(get_trip_balances(tie), fp)
            IN  \E bl2 \in BalanceResponses(Recorded(sug)) :
                    /\ \A b \in Range(bl2) : Abs(b.balance) <= Tolerance
                    /\ \E fp2 \in FpChoices : SuggestionsFor(bl2, fp2) = <<>>

----------------------------------------------------------------------------
(* C11 *)

\* the response of a finished request is the one computed from the records
\* as they are now, whatever requests came before
ResponseFromRecords ==
    plan.pc = "done"
        => \E tie \in Ties :
            /\ plan.balances_list = get_trip_balances(tie)
            /\ \E fp \in FpChoices :
                plan.settlements = SuggestionsFor(plan.balances_list, fp)

----------------------------------------------------------------------------
(* C12 *)

\* C12: for every member u, your_balance of get_trips, your_balance of
\* get_trip and the balance of u in get_trip_balances agree within one cent,
\* however round() resolves a half cent, settlements involving u included.
C12_EndpointConsistency ==
    trip # NoTrip =>
        \A u \in MemberIds :
            \E up1 \in BOOLEAN, up2 \in BOOLEAN, tie \in Ties :
                /\ Abs(get_trips_your_balance(u, up1) - get_trip_your_balance(u, up2))
                       <= Tolerance
                /\ Abs(get_trip_your_balance(u, up2)
                       - BalanceOf(get_trip_balances(tie), u)) <= Tolerance

----------------------------------------------------------------------------
(* C13 *)

\* sum of the net_amount fields of the list get_trip_expenses returns
SumNetAmounts ==
    LET K == 1..Len(expenses)
    IN  SumRatOver(K, [k \in K |-> Rat(get_expense_net_amount(expenses[k].expense_id), 1)]).n

----------------------------------------------------------------------------
(* C14 *)

\* the stored documents are those of one entry of TestStatedLedgers
EntersLedger(l) ==
    /\ expenses = ExpenseDocs(<<l.expense>>, trip.created_by)
    /\ refunds = RefundDocs(l.refunds, trip.created_by)
    /\ settlements = <<>>

\* C14: for 3000 paid by A and split 1500/1500 with a refund of 1000 to B,
\* get_trip_balances returns A = +2000 and B = -1000; for 4000 paid by A and
\* split 2000/2000 with refunds of 500 to A and 500 to B it returns
\* A = +2500 and B = -1500 (one cent of slack, as the tests allow).
C14_TestStatedBalances ==
    \A l \in TestStatedLedgers :
        EntersLedger(l) =>
            \E tie \in Ties :
                LET a == BalanceOf(get_trip_balances(tie), "A")
                    b == BalanceOf(get_trip_balances(tie), "B")
                IN  IF Len(l.refunds) = 1
                    THEN Abs(a - Money(2000)) <= Tolerance /\ Abs(b + Money(1000)) <= Tolerance
                    ELSE Abs(a - Money(2500)) <= Tolerance /\ Abs(b + Money(1500)) <= Tolerance

----------------------------------------------------------------------------
(* C15 *)

HasNegativeShare(e) ==
    \/ \E k \in 1..Len(e.payers) : e.payers[k].amount < 0
    \/ \E k \in 1..Len(e.splits) : e.splits[k].amount < 0

\* the stored documents without those that carry a negative amount, and
\* without the refunds of a dropped expense
AcceptedExpenses == SelectSeq(expenses, LAMBDA e : ~HasNegativeShare(e))

AcceptedRefunds ==
    SelectSeq(refunds, LAMBDA r :
        /\ r.amount >= 0
        /\ \E e \in Range(AcceptedExpenses) : e.expense_id = r.expense_id)

AcceptedSettlements == SelectSeq(settlements, LAMBDA x : x.amount >= 0)

\* C15: no expense with a negative payer or split amount, no refund and no
\* settlement with a negative amount is folded into the balances
\* get_trip_balances returns: the response is the one computed from the
\* documents without negative amounts (such input having been refused with an
\* error), however round() resolves a half cent.
C15_NegativeAmountsRejected ==
    \E tie \in Ties :
        \E up \in TieChoices :
            get_trip_balances(tie)
                = BalanceEntries(trip, AcceptedExpenses, AcceptedRefunds,
                                 AcceptedSettlements, up)

----------------------------------------------------------------------------
(* C16 *)

\* C16: in every state reached through create_refund, update_refund and
\* update_expense, the refunds recorded against an expense of positive total
\* (none of them negative) sum to at most that total, so the net amount
\* get_trip_balances uses is not negative.
C16_OverRefundRejected ==
    \A e \in Range(expenses) :
        (/\ e.total_amount > 0
         /\ \A r \in Range(ExpenseRefunds(e.expense_id, refunds)) : r.amount >= 0)
            => /\ TotalRefunded(e.expense_id) <= e.total_amount
               /\ NetAmount(e, refunds) >= 0

----------------------------------------------------------------------------
(* C17 *)

\* the stored documents without the expenses of total zero and their refunds
NonZeroExpenses == SelectSeq(expenses, LAMBDA e : e.total_amount # 0)

RefundsOfNonZero ==
    SelectSeq(refunds, LAMBDA r :
        \E e \in Range(NonZeroExpenses) : e.expense_id = r.expense_id)

\* C17: an expense whose total_amount is 0 changes no balance: the response of
\* get_trip_balances is the one computed without that expense, its payers,
\* its splits and its refunds, however round() resolves a half cent (stated
\* for ledgers without negative amounts).
C17_ZeroTotalContributesNothing ==
    (/\ \A e \in Range(expenses) : ~HasNegativeShare(e)
     /\ \A r \in Range(refunds) : r.amount >= 0
     /\ \A x \in Range(settlements) : x.amount >= 0)
        => \E tie \in Ties :
            \E up \in TieChoices :
                get_trip_balances(tie)
                    = BalanceEntries(trip, NonZeroExpenses, RefundsOfNonZero, settlements, up)

----------------------------------------------------------------------------
(* C18 *)

\* C18: get_trip_balances returns an entry for every user id referenced by a
\* payer, a split, a refund recipient or a settlement of the trip, ids outside
\* the member list included.
C18_UnknownMemberFallback ==
    trip # NoTrip =>
        \A tie \in Ties :
            ReferencedUsers \subseteq {b.user_id : b \in Range(get_trip_balances(tie))}

----------------------------------------------------------------------------
(* C19 *)

\* entries the loop did not finish: from the current index to the end
Leftover(list, index) == {list[k] : k \in (index + 1)..Len(list)}

\* C19: get_settlements returns a suggestion list only when neither list still
\* holds a creditor or debtor with more than 0.01 remaining (otherwise it
\* would have reported an internal-consistency error).
C19_PlannerConsistencyError ==
    plan.pc = "done"
        => /\ \A c \in Leftover(plan.creditors, plan.i) : c.amt <= Tolerance
           /\ \A d \in Leftover(plan.debtors, plan.j) : d.amt <= Tolerance

----------------------------------------------------------------------------
(* C20 *)

\* C20: once delete_trip or admin_delete_trip has removed the trip, the store
\* holds no expense, no refund and no settlement of it.
C20_TripDeletionCascades ==
    trip = NoTrip => expenses = <<>> /\ refunds = <<>> /\ settlements = <<>>

----------------------------------------------------------------------------
(* C21 *)

\* the ledger with one expense and the refunds naming it taken out
WithoutExpense(exps, expense_id) == SelectSeq(exps, LAMBDA e : e.expense_id # expense_id)

WithoutRefundsOf(refs, expense_id) == SelectSeq(refs, LAMBDA r : r.expense_id # expense_id)

\* C21: after delete_expense succeeds no refund with that expense_id remains,
\* and the balances and total_expenses of the trip are those of the trip
\* before the deletion without that expense and its refunds.
C21_ExpenseDeletionCascades ==
    [][\A u \in Users, id \in ExpenseIds :
        delete_expense(u, id) =>
            /\ \A r \in Range(refunds') : r.expense_id # id
            /\ \A tie \in TieOutcomes(trip', expenses', refunds', settlements') :
                BalanceEntries(trip', expenses', refunds', settlements', tie)
                    = BalanceEntries(trip, WithoutExpense(expenses, id),
                                     WithoutRefundsOf(refunds, id), settlements, tie)
            /\ TotalExpenses(expenses', refunds')
                    = TotalExpenses(WithoutExpense(expenses, id),
                                    WithoutRefundsOf(refunds, id))
      ]_vars

\* an expense that carries a refund and a settlement next to it: the deletion
\* has refunds to take along and balances to leave in place
C21_Witness ==
    /\ \E e \in Range(expenses) : ExpenseRefunds(e.expense_id, refunds) # <<>>
    /\ settlements # <<>>

----------------------------------------------------------------------------
(* C22 *)

\* the refunds of the expense add up to exactly its total
FullyRefunded(e) ==
    ExpenseRefunds(e.expense_id, refunds) # <<>> /\ TotalRefunded(e.expense_id) = e.total_amount

\* what the refunds of an expense hand to member m: an equal part of each
\* refund for every time m is listed
RefundedTo(m, e) ==
    LET K == {k \in 1..Len(refunds) : refunds[k].expense_id = e.expense_id}
    IN  SumRatOver(K, [k \in K |->
            RatScale(Cardinality({n \in 1..Len(refunds[k].refunded_to) : refunds[k].refunded_to[n] = m}),
                     Rat(refunds[k].amount, Len(refunds[k].refunded_to)))])

----------------------------------------------------------------------------
(* C23 *)

\* C23: every pass of the loop of get_settlements advances the creditor index
\* or the debtor index, so the loop ends, and for a balance list with a
\* creditor and a debtor the suggestions number at most
\* creditors + debtors - 1.
C23_SuggestionCountAndProgress ==
    /\ (plan.pc = "loop" /\ LoopCond(plan))
            => FLoopBody(plan).i + FLoopBody(plan).j > plan.i + plan.j
    /\ (plan.pc # "idle" /\ plan.creditors # <<>> /\ plan.debtors # <<>>)
            => Len(plan.settlements) <= Len(plan.creditors) + Len(plan.debtors) - 1

----------------------------------------------------------------------------
(* C24 *)

\* what the suggestions sug move to creditor u, and from debtor u
SuggestedTo(sug, u) ==
    LET K == {k \in 1..Len(sug) : sug[k].to_user_id = u}
    IN  SumRatOver(K, [k \in K |-> Rat(sug[k].amount, 1)]).n

SuggestedFrom(sug, u) ==
    LET K == {k \in 1..Len(sug) : sug[k].from_user_id = u}
    IN  SumRatOver(K, [k \in K |-> Rat(sug[k].amount, 1)]).n

\* s lists amounts largest first
Descending(s) == \A k \in 1..(Len(s) - 1) : s[k].amt >= s[k + 1].amt

\* C24: in a response of get_settlements the creditors and the debtors were
\* taken largest first; the first suggestion is from the largest debtor to
\* the largest creditor for the smaller of their amounts; every suggestion
\* goes from a member with a negative balance to a different member with a
\* positive balance and carries an amount greater than 0.01; and no creditor
\* is suggested more, no debtor asked more, than the absolute balance.
C24_GreedyOrderAndDirection ==
    plan.pc = "done" =>
        LET bl == plan.balances_list
            cs == Creditors(bl)
            ds == Debtors(bl)
            sug == plan.settlements
        IN  /\ Descending(cs) /\ Descending(ds)
            /\ (cs # <<>> /\ ds # <<>>) =>
                    /\ sug # <<>>
                    /\ sug[1] = [from_user_id |-> ds[1].user_id,
                                 to_user_id |-> cs[1].user_id,
                                 amount |-> IF cs[1].amt < ds[1].amt
                                            THEN cs[1].amt ELSE ds[1].amt]
            /\ \A k \in 1..Len(sug) :
                    /\ BalanceOf(bl, sug[k].from_user_id) < 0
                    /\ BalanceOf(bl, sug[k].to_user_id) > 0
                    /\ sug[k].from_user_id # sug[k].to_user_id
                    /\ sug[k].amount > Tolerance
            /\ \A b \in Range(bl) :
                    /\ SuggestedTo(sug, b.user_id) <= Abs(b.balance)
                    /\ SuggestedFrom(sug, b.user_id) <= Abs(b.balance)

----------------------------------------------------------------------------
(* C25 *)

\* C25: no member list holds two entries with the same user_id, whatever
\* create_trip, add_member by email or by username, update_username and the
\* guest linking of a registration did before.
C25_UniqueMembership ==
    \A i, j \in 1..Len(trip.members) :
        trip.members[i].user_id = trip.members[j].user_id => i = j

----------------------------------------------------------------------------
(* C26 *)

\* some handler that writes the ledger succeeds for u in this step
ChangesLedger(u) ==
    \/ \E inp \in ExpenseInputs : create_expense(u, inp)
    \/ \E id \in 1..MaxExpenses, upd \in ExpenseUpdates : update_expense(u, id, upd)
    \/ \E id \in 1..MaxExpenses : delete_expense(u, id)
    \/ \E inp \in RefundInputs : create_refund(u, inp)
    \/ \E id \in 1..MaxRefunds, upd \in RefundUpdates : update_refund(u, id, upd)
    \/ \E id \in 1..MaxRefunds : delete_refund(u, id)
    \/ \E inp \in SettlementInputs : create_settlement(u, inp)
    \/ \E id \in 1..MaxSettlements : delete_settlement(u, id)

\* C26: a user who is not a member of the trip now (never added, or removed
\* by remove_member) cannot create, update or delete an expense, a refund or
\* a settlement of it: no such request of theirs succeeds.
C26_OnlyMembersChangeLedger ==
    [][\A u \in Users : ~IsMember(u) => ~ChangesLedger(u)]_vars

----------------------------------------------------------------------------
(* C27 *)

\* ways round() may resolve halfway values, for accounts and guests
GuestTieChoices == [Users \cup GuestIds -> BOOLEAN]

\* a balance list with the guest ids olds renamed to user_id
RenamedBalances(balances_list, olds, user_id) ==
    [k \in 1..Len(balances_list) |->
        [balances_list[k] EXCEPT !.user_id = LinkedId(@, olds, user_id)]]

\* C27: when a registration links the guest entry of the email, the balances
\* get_trip_balances returns are those of before with the guest id renamed
\* to the new user_id, and no payer, split, refund recipient or settlement
\* party of the trip carries the old guest id afterwards.
C27_GuestLinkingPreservesLedger ==
    [][\A user_id \in Users, username \in {"Cat"} :
        LET email == Emails[user_id]
            olds == GuestIdsOf(trip.members, email)
        IN  (register(user_id, email, username) /\ olds # {}) =>
                /\ \A tie \in GuestTieChoices :
                      BalanceEntries(trip', expenses', refunds', settlements',
                                     [tie EXCEPT ![user_id] = tie[CHOOSE g \in olds : TRUE]])
                        = RenamedBalances(BalanceEntries(trip, expenses, refunds, settlements, tie),
                                          olds, user_id)
                /\ olds \cap (MemberIds' \cup LedgerUserIds') = {}
      ]_vars

\* C has registered and holds what the guest paid, owed, was refunded and settled
C27_Witness ==
    /\ "C" \in MemberIds
    /\ \E e \in Range(expenses) :
            /\ \E p \in Range(e.payers) : p.user_id = "C"
            /\ \E x \in Range(e.splits) : x.user_id = "C"
    /\ \E r \in Range(refunds) : "C" \in Range(r.refunded_to)
    /\ \E x \in Range(settlements) : "C" \in {x.from_user_id, x.to_user_id}

----------------------------------------------------------------------------
(* C28 *)

\* the balance lists a store value gives, however halfway values are rounded
BalancesOfStore(st) ==
    {BalanceEntries(st[1], st[2], st[3], st[4], tie) : tie \in TieChoices}

\* C28: the list get_trip_balances returns while add_member, create_expense,
\* create_refund, delete_expense and create_settlement run between its reads
\* is the balance list of one store value that existed between its first and
\* its last read, and it sums to zero.
C28_ConsistentSnapshot ==
    LET r == requests.get_trip_balances
    IN  r.pc = "done" =>
            /\ \E st \in r.seen : r.response \in BalancesOfStore(st)
            /\ SumBalance(r.response) = 0

----------------------------------------------------------------------------
(* C29 *)

\* no create_refund, delete_expense or delete_trip is between its queries
NoWriteInProgress ==
    /\ requests.create_refund.pc = "idle"
    /\ requests.delete_expense.pc = "idle"
    /\ requests.delete_trip.pc = "idle"

\* C29: whatever way create_refund, delete_expense and delete_trip interleave,
\* once the requests have returned every stored refund names an expense that
\* exists, in a trip that exists.
C29_NoOrphanRefunds ==
    NoWriteInProgress =>
        \A r \in Range(refunds) : trip # NoTrip /\ r.expense_id \in ExpenseIds

----------------------------------------------------------------------------
(* C30 *)

\* the requests that present the token t
Presenting(t) == {request \in AuthRequests : SessionTokenOf(request) = t}

\* C30: once a client authenticated with the session token t, sent as the
\* cookie or as a Bearer header, has logged out, user_sessions holds no
\* session of t and every request presenting t is answered with 401.
C30_LogoutEndsSession ==
    \A t \in requests.logged_out :
        /\ \A x \in user_sessions : x.session_token # t
        /\ \A request \in Presenting(t) : get_current_user(request) = Unauthorized

====
